---- MODULE Spec2Model ----
(***************************************************************************)
(* A model of the a22x-map terrain engine: the cell index and the height   *)
(* quantiser (geo), the container builder and reader (geo), and the GPU    *)
(* tile atlas with its per-frame cache driver (render).                    *)
(***************************************************************************)
EXTENDS Integers, Sequences, FiniteSets, TLC

VARIABLES
    \* pure-function harness: which function is being applied, to what, with what result
    fpc, fin, fout,
    \* render: the atlas, the residency table (TileCache::tiles), the loaded datasets
    atlas, tiles, datasets,
    \* render: the contents of the tile map texture the shader reads
    \* (TileCache::tile_map)
    tile_map_texture,
    \* render: what the last populate_tiles call saw and did (used mask, range,
    \* returned status, number of textures uploaded, a failed expect)
    used, range, status, uploads, frame,
    \* render: admissions into an atlas that starts empty (count, last result)
    upCount, upRet,
    \* builder: metadata, dictionary, the file's bytes and the File cursor, the
    \* in-memory tile map, the owner of the write lock, each thread's call in progress
    bMetadata, bDictionary, bFile, bCursor, bTileMap, bLock, thr,
    \* builder history: completed payload writes, the grid last recorded per cell,
    \* the last flush, the number of calls made
    writes, supplied, lastFlush, adds, flushes,
    \* reader: building or reading, the reopened dataset, the last get_tile
    phase, reader, got,
    \* continuing: the table, the file length and the file's dictionary the run's
    \* builder started from
    opened

pureVars == <<fpc, fin, fout>>
atlasVars == <<atlas, tiles, datasets, used, range, status, uploads, frame, upCount, upRet,
               tile_map_texture>>
builderVars == <<bMetadata, bDictionary, bFile, bCursor, bTileMap, bLock, thr, writes,
                 supplied, lastFlush, adds, flushes, phase, reader, got, opened>>
vars == <<fpc, fin, fout, atlas, tiles, datasets, used, range, status, uploads, frame,
          upCount, upRet, tile_map_texture, bMetadata, bDictionary, bFile, bCursor, bTileMap, bLock, thr,
          writes, supplied, lastFlush, adds, flushes, phase, reader, got, opened>>

(***************************************************************************)
(* Machine integers.                                                       *)
(***************************************************************************)
\* two's-complement wrap of an i16 result
WrapI16(x) == ((x + 32768) % 65536) - 32768

\* wrap of a u16 result
WrapU16(x) == x % 65536

\* `x as i16` for a u16 x: reinterpretation of the 16 bits
U16AsI16(x) == IF x >= 32768 THEN x - 65536 ELSE x

\* `x as u16` for a float x that is already integral: the cast saturates
F32AsU16(x) == IF x < 0 THEN 0 ELSE IF x > 65535 THEN 65535 ELSE x

\* f32::round of the quotient p / d (d > 0): nearest integer, halves away from zero.
\* For |p| <= 32768 and d <= 65535 the f32 quotient is never rounded onto or across a
\* half, so the exact rational rounding is what the code computes.
RoundDiv(p, d) ==
    IF p >= 0 THEN (2 * p + d) \div (2 * d)
    ELSE -((2 * (-p) + d) \div (2 * d))

(***************************************************************************)
(* Cell index (geo/src/lib.rs).                                            *)
(***************************************************************************)
LatCount == 180
LonCount == 360
WaterHeight == -500

map_lat_lon_to_index_transposed(lat, lon) ==
    LET la == WrapI16(lat + 90)
        lo == WrapI16(lon + 180)
    IN  lo * LatCount + la

map_lat_lon_to_index(lat, lon) ==
    LET la == WrapI16(lat + 90)
        lo == WrapI16(lon + 180)
    IN  la * LonCount + lo

map_index_to_lat_lon(index) ==
    LET lat == WrapI16(WrapI16(index \div LonCount) - 90)
        lon == WrapI16(WrapI16(index % LonCount) - 180)
    IN  <<lat, lon>>

(***************************************************************************)
(* Height quantisation (builder) and un-quantisation (reader).             *)
(***************************************************************************)
\* builder.rs add_tile, lines 124-126, without the call to round()
Quantise_truncating(height, height_resolution) ==
    LET positive_height == WrapI16(height + 500)
    IN  F32AsU16(IF positive_height >= 0
                 THEN positive_height \div height_resolution
                 ELSE -((-positive_height) \div height_resolution))

Quantise(height, height_resolution) ==
    LET positive_height == WrapI16(height + 500)
    IN  F32AsU16(RoundDiv(positive_height, height_resolution))

\* dataset/mod.rs lines 147-149: u16 product, reinterpreted as i16, minus 500
Unquantise(value, height_resolution) ==
    LET positive_height == WrapU16(value * height_resolution)
    IN  WrapI16(U16AsI16(positive_height) - 500)

\* dataset/ver6.rs unmap: u16 product, widened to i32, minus 500, narrowed to i16
unmap(height_res, h) ==
    LET hh == WrapU16(h * height_res)
    IN  WrapI16(hh - 500)

(***************************************************************************)
(* Version-6 tile decoder (geo/src/dataset/ver6.rs): un-palette,           *)
(* un-predict, un-map. A grid is the sequence of its pixels, the pixel     *)
(* (x, y) at position y * res + x + 1; u16 arithmetic wraps.               *)
(***************************************************************************)
\* u16::from_le_bytes(d[at .. at + 2]) for the 0-based position at
LE16(d, at) == d[at + 1] + 256 * d[at + 2]

\* the palette of the palette forms: the first entry as stored, every later entry
\* its stored delta plus one, then the running sums (lines 93-102 and 109-114)
RECURSIVE palette_sums(_, _)
palette_sums(entries, n) ==
    IF n = 0 THEN <<>>
    ELSE IF n = 1 THEN <<entries[1]>>
    ELSE LET prev == palette_sums(entries, n - 1)
         IN  Append(prev, WrapU16(entries[n] + prev[n - 1]))

\* unpalette: -1 stands for a panic (a slice or an index out of range, unreachable!)
\* the decoder aborts: unreachable!(), or an index past the end of the palette
Panicked == <<-1>>

unpalette(res, decompressed) ==
    LET len == Len(decompressed)
        raw_size == res * res * 2 + 2
        raw_byte_size == res * res + 3
    IN  IF len = raw_size
        THEN LET min == LE16(decompressed, 0)
             IN  [i \in 1 .. (res * res) |-> WrapU16(LE16(decompressed, 2 * i) + min)]
        ELSE IF len = raw_byte_size
        THEN LET min == LE16(decompressed, 0)
                 first == LE16(decompressed, 2)
             IN  [i \in 1 .. (res * res) |->
                    IF i = 1 THEN first
                    ELSE IF decompressed[3 + i] = 0 THEN 0
                    ELSE WrapU16(decompressed[3 + i] - 1 + min)]
        ELSE IF len < res * res + 2 THEN Panicked
        ELSE LET palette_len == decompressed[1] + 1
                 raw_len == len - (res * res + 2)
             IN  IF raw_len = palette_len * 2
                 THEN LET end == palette_len * 2 + 1
                          stored == [k \in 1 .. palette_len |->
                                       IF k = 1 THEN LE16(decompressed, 1)
                                       ELSE WrapU16(LE16(decompressed, 2 * k - 1) + 1)]
                          palette == palette_sums(stored, palette_len)
                      IN  IF \E i \in 2 .. (res * res) :
                                decompressed[end + 1 + i] + 1 > palette_len
                          THEN Panicked
                          ELSE [i \in 1 .. (res * res) |->
                                   IF i = 1 THEN LE16(decompressed, end)
                                   ELSE palette[decompressed[end + 1 + i] + 1]]
                 ELSE IF raw_len = palette_len + 1
                 THEN LET end == palette_len + 2
                          stored == [k \in 1 .. palette_len |->
                                       IF k = 1 THEN LE16(decompressed, 1)
                                       ELSE decompressed[k + 2] + 1]
                          palette == palette_sums(stored, palette_len)
                      IN  IF \E i \in 2 .. (res * res) :
                                decompressed[end + 1 + i] + 1 > palette_len
                          THEN Panicked
                          ELSE [i \in 1 .. (res * res) |->
                                   IF i = 1 THEN LE16(decompressed, end)
                                   ELSE palette[decompressed[end + 1 + i] + 1]]
                 ELSE Panicked

\* unpredict's delta without the test for the water sentinel
delta_unguarded(current, out) == WrapU16(current + (out - 7000))

\* unpredict: fn delta, fn linear, fn plane
delta(current, out) ==
    IF out = 0 THEN 0 ELSE WrapU16(current + (out - 7000))

\* unpredict's linear with the slope of the two earlier pixels left out
linear_flat(previous, current, out) ==
    IF out = 0 THEN 0 ELSE WrapU16(current + (out - 7000))

linear(previous, current, out) ==
    IF out = 0 THEN 0 ELSE WrapU16((current + (current - previous)) + (out - 7000))

plane(left, top, top_left, out) ==
    IF out = 0 THEN 0 ELSE WrapU16((top + (left - top_left)) + (out - 7000))

\* the assignments of unpredict in the order the code makes them, each the 0-based
\* position written and the predictor used
UnpredictSteps(res) ==
    <<[kind |-> "delta", at |-> 1], [kind |-> "delta", at |-> res]>>
    \o [k \in 1 .. (res - 2) |-> [kind |-> "row", at |-> k + 1]]
    \o [k \in 1 .. (res - 2) |-> [kind |-> "col", at |-> (k + 1) * res]]
    \o [k \in 1 .. ((res - 1) * (res - 1)) |->
          LET x == 1 + ((k - 1) \div (res - 1))
              y == 1 + ((k - 1) % (res - 1))
          IN  [kind |-> "plane", at |-> y * res + x]]

\* one assignment of unpredict applied to the grid u
unpredict_step(res, u, s) ==
    LET at(p) == u[p + 1]
        v == CASE s.kind = "delta" -> delta(at(0), at(s.at))
               [] s.kind = "row" -> linear(at(s.at - 2), at(s.at - 1), at(s.at))
               [] s.kind = "col" ->
                    linear(at(s.at - 2 * res), at(s.at - res), at(s.at))
               [] OTHER -> plane(at(s.at - 1), at(s.at - res), at(s.at - res - 1),
                                 at(s.at))
    IN  [u EXCEPT ![s.at + 1] = v]

RECURSIVE unpredict_from(_, _, _, _)
unpredict_from(res, u, steps, k) ==
    IF k > Len(steps) THEN u
    ELSE unpredict_from(res, unpredict_step(res, u, steps[k]), steps, k + 1)

unpredict(res, unpaletted) == unpredict_from(res, unpaletted, UnpredictSteps(res), 1)

\* unmap over the whole grid
unmap_grid(height_res, unpredicted) ==
    [i \in 1 .. Len(unpredicted) |-> unmap(height_res, unpredicted[i])]

(***************************************************************************)
(* Atlas and tile cache driver (render/src/tile_cache.rs).                 *)
(* The 360 x 180 cell grid is scaled down to GridLon x GridLat cells; a    *)
(* cell's index is lat * GridLon + lon as in populate_tiles.               *)
(***************************************************************************)
GridLon == 2
GridLat == 2
NumCells == GridLon * GridLat
Cells == 0 .. (NumCells - 1)

\* limits.max_texture_dimension_2d of the device
MaxTextureDim == 2048

\* Number of frames explored
MaxFrames == 4

None == [none |-> TRUE]

TileOffset(x, y) == [x |-> x, y |-> y]

unloaded(a) == TileOffset(0, a.height)

not_found(a) == TileOffset(a.width, 0)

\* the test of lines 142 and 469 with the comparison against not_found left out
IsSlot_or_not_found(a, o) == o # unloaded(a)

\* *offset != self.atlas.unloaded() && *offset != self.atlas.not_found()
IsSlot(a, o) == o # unloaded(a) /\ o # not_found(a)

\* Atlas::needs_clear: the selected dataset's resolution differs from the current one
needs_clear(a, ds, res) == res # a.curr_tile_res

\* Atlas::clear without the reset of the bump pointer
atlas_clear_keep_offset(a, res) ==
    [a EXCEPT !.collected_tiles = <<>>,
              !.curr_tile_res = res]

\* Atlas::clear
atlas_clear(a, res) ==
    [a EXCEPT !.collected_tiles = <<>>,
              !.curr_tile_res = res,
              !.curr_offset = TileOffset(0, 0)]

\* return_tile pushing the slot a second time
return_tile_twice(a, tile) == [a EXCEPT !.collected_tiles = Append(Append(@, tile), tile)]

\* Atlas::return_tile
return_tile(a, tile) == [a EXCEPT !.collected_tiles = Append(@, tile)]

\* The end of upload_tile (lines 451-455): the bump pointer advances
bump_advance(a) ==
    LET x1 == a.curr_offset.x + a.curr_tile_res
    IN  IF x1 + a.curr_tile_res >= a.width
        THEN [a EXCEPT !.curr_offset = TileOffset(0, a.curr_offset.y + a.curr_tile_res)]
        ELSE [a EXCEPT !.curr_offset = TileOffset(x1, a.curr_offset.y)]

\* upload_tile reading the free list's last slot without removing it
upload_tile_peek(a) ==
    IF Len(a.collected_tiles) > 0
    THEN [ret |-> a.collected_tiles[Len(a.collected_tiles)], atlas |-> bump_advance(a)]
    ELSE IF a.curr_offset.y + a.curr_tile_res >= a.height
         THEN [ret |-> None, atlas |-> a]
         ELSE [ret |-> a.curr_offset, atlas |-> bump_advance(a)]

\* upload_tile without the test of the bump pointer against the atlas height
upload_tile_unbounded(a) ==
    IF Len(a.collected_tiles) > 0
    THEN LET n == Len(a.collected_tiles)
             popped == [a EXCEPT !.collected_tiles = SubSeq(@, 1, n - 1)]
         IN  [ret |-> a.collected_tiles[n], atlas |-> bump_advance(popped)]
    ELSE [ret |-> a.curr_offset, atlas |-> bump_advance(a)]

\* Atlas::upload_tile: a slot from the free list, else the bump pointer's, else None
upload_tile(a) ==
    IF Len(a.collected_tiles) > 0
    THEN LET n == Len(a.collected_tiles)
             popped == [a EXCEPT !.collected_tiles = SubSeq(@, 1, n - 1)]
         IN  [ret |-> a.collected_tiles[n], atlas |-> bump_advance(popped)]
    ELSE IF a.curr_offset.y + a.curr_tile_res >= a.height
         THEN [ret |-> None, atlas |-> a]
         ELSE [ret |-> a.curr_offset, atlas |-> bump_advance(a)]

\* Atlas::collect_tiles: one pass over the cells after `start` in index order
RECURSIVE collect_from(_, _, _, _, _, _)
collect_from(i, a, u, t, needed, collected) ==
    IF i >= NumCells
    THEN [atlas |-> a, tiles |-> t, ok |-> collected >= needed]
    ELSE IF u[i] = 1 /\ t[i] = unloaded(a)
         THEN collect_from(i + 1, a, u, t, needed + 1, collected)
         ELSE IF IsSlot(a, t[i])
              THEN collect_from(i + 1,
                                [a EXCEPT !.collected_tiles = Append(@, t[i])],
                                u,
                                [t EXCEPT ![i] = unloaded(a)],
                                needed,
                                collected + 1)
              ELSE collect_from(i + 1, a, u, t, needed, collected)

\* collect_tiles counting from needed = 0
collect_tiles_needed_zero(a, u, t, start) == collect_from(start + 1, a, u, t, 0, 0)

collect_tiles(a, u, t, start) == collect_from(start + 1, a, u, t, 1, 0)

Min(x, y) == IF x < y THEN x ELSE y

\* recreate_atlas doubling both sides without the min against the device limit
recreate_atlas_unclamped(a) ==
    IF a.width = MaxTextureDim /\ a.height = MaxTextureDim
    THEN [ok |-> FALSE, atlas |-> a]
    ELSE [ok |-> TRUE,
          atlas |-> [a EXCEPT !.width = a.width * 2,
                              !.height = a.height * 2,
                              !.curr_tile_res = 0]]

\* recreate_atlas without the reset of curr_tile_res
recreate_atlas_keep_res(a) ==
    IF a.width = MaxTextureDim /\ a.height = MaxTextureDim
    THEN [ok |-> FALSE, atlas |-> a]
    ELSE [ok |-> TRUE,
          atlas |-> [a EXCEPT !.width = Min(a.width * 2, MaxTextureDim),
                              !.height = Min(a.height * 2, MaxTextureDim)]]

\* recreate_atlas that makes the new texture but keeps the old width and height
recreate_atlas_same_size(a) ==
    IF a.width = MaxTextureDim /\ a.height = MaxTextureDim
    THEN [ok |-> FALSE, atlas |-> a]
    ELSE [ok |-> TRUE, atlas |-> [a EXCEPT !.curr_tile_res = 0]]

\* Atlas::recreate_atlas
recreate_atlas(a) ==
    IF a.width = MaxTextureDim /\ a.height = MaxTextureDim
    THEN [ok |-> FALSE, atlas |-> a]
    ELSE [ok |-> TRUE,
          atlas |-> [a EXCEPT !.width = Min(a.width * 2, MaxTextureDim),
                              !.height = Min(a.height * 2, MaxTextureDim),
                              !.curr_tile_res = 0]]

\* The cells in the order populate_tiles visits them: lon outer, lat inner
VisitOrder ==
    [k \in 1 .. NumCells |-> ((k - 1) % GridLat) * GridLon + ((k - 1) \div GridLat)]

\* What one call of populate_tiles did, in the order it did it: each entry is the
\* kind of step, the cell it concerned and the slot involved (NoSlot if none).
\* The list is derived from the call and is not part of the cache's state.
NoSlot == TileOffset(-1, -1)
Event(kind, cell, slot) == [kind |-> kind, cell |-> cell, slot |-> slot]

\* the cells collect_tiles freed, in index order, with the slots they held
gc_events(a, before, after) ==
    LET freed(c) == IsSlot(a, before[c]) /\ after[c] # before[c]
        cells == SelectSeq([k \in 1 .. NumCells |-> k - 1], freed)
    IN  [k \in 1 .. Len(cells) |-> Event("gc_evict", cells[k], before[cells[k]])]

\* One cell of populate_tiles' loop (lines 139-185). st.status is "Ok" while the
\* loop runs; any other value is the `break 'outer` (or the failed expect).
visit_cell(st, index, u, dataset) ==
    LET a == st.atlas
        offset == st.tiles[index]
        looked == Append(st.events, Event("lookup", index, NoSlot))
    IN  IF u[index] = 0
        THEN IF IsSlot(a, offset)
             THEN [st EXCEPT !.atlas = return_tile(a, offset),
                             !.tiles[index] = unloaded(a),
                             !.events = Append(@, Event("evict", index, offset))]
             ELSE st
        ELSE IF offset # unloaded(a)
        THEN st
        ELSE IF dataset.tiles[index] = "none"
        THEN [st EXCEPT !.tiles[index] = not_found(a), !.events = looked]
        ELSE IF dataset.tiles[index] = "err"
        THEN [st EXCEPT !.events = looked]
        ELSE LET up == upload_tile(a)
             IN  IF up.ret # None
                 THEN [st EXCEPT !.atlas = up.atlas,
                                 !.tiles[index] = up.ret,
                                 !.uploads = @ + 1,
                                 !.events = Append(looked, Event("admit", index, up.ret))]
                 ELSE LET gc == collect_tiles(a, u, st.tiles, index)
                          collected == Append(looked, Event("gc", index, NoSlot))
                                           \o gc_events(a, st.tiles, gc.tiles)
                      IN  IF gc.ok
                          THEN LET up2 == upload_tile(gc.atlas)
                               IN  IF up2.ret # None
                                   THEN [st EXCEPT !.atlas = up2.atlas,
                                                   !.tiles = [gc.tiles EXCEPT ![index] = up2.ret],
                                                   !.uploads = @ + 1,
                                                   !.events = Append(collected,
                                                                  Event("admit", index, up2.ret))]
                                   ELSE [st EXCEPT !.atlas = gc.atlas,
                                                   !.tiles = gc.tiles,
                                                   !.status = "Panic",
                                                   !.events = collected]
                          ELSE LET re == recreate_atlas(gc.atlas)
                               IN  IF re.ok
                                   THEN [st EXCEPT !.atlas = re.atlas,
                                                   !.tiles = [c \in Cells |-> unloaded(re.atlas)],
                                                   !.status = "Resized",
                                                   !.events = Append(collected,
                                                                  Event("grow", index, NoSlot))]
                                   ELSE [st EXCEPT !.atlas = gc.atlas,
                                                   !.tiles = gc.tiles,
                                                   !.status = "AtlasFull",
                                                   !.events = Append(collected,
                                                                  Event("full", index, NoSlot))]

\* populate_tiles' loop leaving at the first tile that fails to decode
RECURSIVE visit_from_stop_on_err(_, _, _, _)
visit_from_stop_on_err(k, st, u, dataset) ==
    IF k > NumCells \/ st.status # "Ok"
    THEN st
    ELSE IF /\ u[VisitOrder[k]] # 0
            /\ st.tiles[VisitOrder[k]] = unloaded(st.atlas)
            /\ dataset.tiles[VisitOrder[k]] = "err"
    THEN visit_cell(st, VisitOrder[k], u, dataset)
    ELSE visit_from_stop_on_err(k + 1, visit_cell(st, VisitOrder[k], u, dataset), u, dataset)

RECURSIVE visit_from(_, _, _, _)
visit_from(k, st, u, dataset) ==
    IF k > NumCells \/ st.status # "Ok"
    THEN st
    ELSE visit_from(k + 1, visit_cell(st, VisitOrder[k], u, dataset), u, dataset)

\* TileCache::populate_tiles: clear on a change of resolution, then the loop
populate_tiles(a, t, ds, lods, u, r) ==
    LET dataset == ds[lods[r]]
        res == dataset.resolution
        cleared == needs_clear(a, ds, res)
        a0 == IF cleared THEN atlas_clear(a, res) ELSE a
        t0 == IF cleared THEN [c \in Cells |-> unloaded(a)] ELSE t
    IN  visit_from(1, [atlas |-> a0, tiles |-> t0, status |-> "Ok", uploads |-> 0,
                       events |-> IF cleared THEN <<Event("clear", -1, NoSlot)>> ELSE <<>>],
                   u, dataset)

(***************************************************************************)
(* Container builder and reader (geo/src/builder.rs, geo/src/dataset).     *)
(* The 64,800-entry offset table is scaled down to TileMapLen entries, so  *)
(* the cells in use are those of latitude -90 and the first TileMapLen     *)
(* longitudes. The file is the sequence of its bytes; position p is the    *)
(* element p + 1.                                                          *)
(***************************************************************************)
TileMapLen == 2
TileCells == 0 .. (TileMapLen - 1)

MAGIC == <<115, 117, 115, 115, 121>>
FORMAT_VERSION == 3
VER3_TILE_MAP_OFFSET == 11
VER3_DICT_OFFSET == VER3_TILE_MAP_OFFSET + TileMapLen * 8
VER4_TILE_MAP_OFFSET == 13
VER4_DICT_OFFSET == VER4_TILE_MAP_OFFSET + TileMapLen * 8

\* u16::to_le_bytes, usize/u64::to_le_bytes (values stay below 2^31 here)
U16LE(v) == <<v % 256, (v \div 256) % 256>>
U64LE(v) == <<v % 256, (v \div 256) % 256, (v \div 65536) % 256, (v \div 16777216) % 256,
              0, 0, 0, 0>>

\* u16::from_le_bytes / LittleEndian::read_u24 / u64::from_le_bytes of the bytes at
\* position at; a u64 of 2^31 or more is represented by 2^31 - 1
ReadU16LE(b, at) == b[at + 1] + 256 * b[at + 2]
ReadU24LE(b, at) == b[at + 1] + 256 * b[at + 2] + 65536 * b[at + 3]
ReadU64LE(b, at) ==
    IF b[at + 4] >= 128 \/ \E k \in 5 .. 8 : b[at + k] # 0
    THEN 2^31 - 1
    ELSE b[at + 1] + 256 * b[at + 2] + 65536 * b[at + 3] + 16777216 * b[at + 4]

\* the tile map as bytes: slice::from_raw_parts(tile_map.as_ptr(), len * 8)
TableBytes(tm) ==
    [k \in 1 .. (TileMapLen * 8) |-> U64LE(tm[(k - 1) \div 8])[((k - 1) % 8) + 1]]

\* File::write_all at the cursor pos: overwrites, and extends the file past its end
WriteAt(f, pos, bytes) ==
    LET end == IF pos + Len(bytes) > Len(f) THEN pos + Len(bytes) ELSE Len(f)
    IN  [i \in 1 .. end |->
            IF i > pos /\ i <= pos + Len(bytes) THEN bytes[i - pos]
            ELSE IF i <= Len(f) THEN f[i] ELSE 0]

\* file.seek(SeekFrom::End(0)) returning the start of the file instead of its end
SeekFrom_End_rewind(f) == VER4_DICT_OFFSET + 8

\* file.seek(SeekFrom::End(0)): the new cursor, which is the file length
SeekFrom_End(f) == Len(f)

\* RwLock::write that never waits
RwLock_write_unchecked(owner) == TRUE

\* RwLock::write returns only when no other guard is held (owner 0: unlocked)
RwLock_write(owner) == owner = 0

\* a store into the table that leaves an entry already set as it is
tile_map_store_if_absent(tile_map, index, offset) ==
    IF tile_map[index] # 0 THEN tile_map ELSE [tile_map EXCEPT ![index] = offset]

\* locked.tile_map[index] = offset
tile_map_store(tile_map, index, offset) == [tile_map EXCEPT ![index] = offset]

\* DatasetBuilder::write_to_file
write_to_file(metadata, tm, data, dict) ==
    LET header == MAGIC \o U16LE(metadata.version) \o U16LE(metadata.resolution)
                        \o U16LE(metadata.height_resolution) \o U16LE(metadata.tiling)
    IN  header \o U64LE(Len(dict)) \o dict \o TableBytes(tm) \o data

\* flush: the position the table is written at
flush_offset(version) ==
    IF version = 3 THEN VER3_TILE_MAP_OFFSET ELSE VER4_TILE_MAP_OFFSET

(***************************************************************************)
(* The entropy coder. A frame is written without magic bytes, checksum,    *)
(* dictionary id and content size: a header descriptor of 0, a window      *)
(* byte, then one last block. The block is raw when no byte of the input   *)
(* occurs in the dictionary; otherwise it is a compressed block of         *)
(* two-byte tokens, <<0, b>> for the literal b and <<1, k>> for the k-th   *)
(* byte of the dictionary. Decoding a reference that the decoder's         *)
(* dictionary does not cover is the coder's "corrupted block" error.       *)
(***************************************************************************)
InDict(dict, b) == \E k \in 1 .. Len(dict) : dict[k] = b
DictPos(dict, b) == CHOOSE k \in 1 .. Len(dict) :
                        dict[k] = b /\ \A j \in 1 .. (k - 1) : dict[j] # b

U24LE(v) == <<v % 256, (v \div 256) % 256, (v \div 65536) % 256>>
BlockHeader(ty, size) == U24LE(size * 8 + ty * 2 + 1)

\* Encoder::with_prepared_dictionary ... write_all ... finish
Compress(dict, data) ==
    IF \E i \in 1 .. Len(data) : InDict(dict, data[i])
    THEN <<0, 0>> \o BlockHeader(2, 2 * Len(data)) \o
         [k \in 1 .. (2 * Len(data)) |->
             LET b == data[(k + 1) \div 2]
             IN  IF k % 2 = 1 THEN (IF InDict(dict, b) THEN 1 ELSE 0)
                 ELSE (IF InDict(dict, b) THEN DictPos(dict, b) ELSE b)]
    ELSE <<0, 0>> \o BlockHeader(0, Len(data)) \o data

\* the header size computed without the window byte
frame_header_size_no_window(header_descriptor) ==
    LET dict_id == header_descriptor % 4
        single_segment == (header_descriptor \div 32) % 2
        size_id == header_descriptor \div 64
    IN  1 + (CASE dict_id = 0 -> 0 [] dict_id = 1 -> 1 [] dict_id = 2 -> 2 [] OTHER -> 4)
          + (CASE size_id = 0 -> single_segment [] size_id = 1 -> 2
               [] size_id = 2 -> 4 [] OTHER -> 8)

\* size of the frame header, from the header descriptor (tile_frame_size, 196-214)
frame_header_size(header_descriptor) ==
    LET dict_id == header_descriptor % 4
        single_segment == (header_descriptor \div 32) % 2
        size_id == header_descriptor \div 64
    IN  1 + (1 - single_segment)
          + (CASE dict_id = 0 -> 0 [] dict_id = 1 -> 1 [] dict_id = 2 -> 2 [] OTHER -> 4)
          + (CASE size_id = 0 -> single_segment [] size_id = 1 -> 2
               [] size_id = 2 -> 4 [] OTHER -> 8)

\* the block loop of Dataset::tile_frame_size; -1 stands for the panic of a slice
\* that runs past the end of the frame or of the unreachable block type 3
RECURSIVE frame_blocks_end(_, _)
frame_blocks_end(fr, offset) ==
    IF offset + 3 > Len(fr) THEN -1
    ELSE LET header == ReadU24LE(fr, offset)
             block_content_size == header \div 8
             last == header % 2
             block_ty == (header \div 2) % 4
             block_size == 3 + (IF block_ty = 1 THEN 1 ELSE block_content_size)
         IN  IF block_ty = 3 THEN -1
             ELSE IF last = 1 THEN offset + block_size
             ELSE frame_blocks_end(fr, offset + block_size)

\* Dataset::tile_frame_size
tile_frame_size(fr) ==
    IF Len(fr) = 0 THEN -1 ELSE frame_blocks_end(fr, frame_header_size(fr[1]))

\* one block's content decoded with the dictionary dict
DecodeBlock(dict, ty, size, content) ==
    CASE ty = 0 -> [ok |-> TRUE, bytes |-> content]
      [] ty = 1 -> [ok |-> TRUE, bytes |-> [i \in 1 .. size |-> content[1]]]
      [] ty = 2 ->
           IF \/ Len(content) % 2 # 0
              \/ \E i \in 1 .. (Len(content) \div 2) :
                    \/ content[2 * i - 1] > 1
                    \/ content[2 * i - 1] = 1 /\ content[2 * i] \notin 1 .. Len(dict)
           THEN [ok |-> FALSE, bytes |-> <<>>]
           ELSE [ok |-> TRUE,
                 bytes |-> [i \in 1 .. (Len(content) \div 2) |->
                              IF content[2 * i - 1] = 1 THEN dict[content[2 * i]]
                              ELSE content[2 * i]]]
      [] OTHER -> [ok |-> FALSE, bytes |-> <<>>]

\* Decoder::with_prepared_dictionary(frame, dict).single_frame(): the decoded bytes
RECURSIVE DecodeBlocks(_, _, _)
DecodeBlocks(dict, fr, offset) ==
    IF offset + 3 > Len(fr) THEN [ok |-> FALSE, bytes |-> <<>>]
    ELSE LET header == ReadU24LE(fr, offset)
             size == header \div 8
             last == header % 2
             ty == (header \div 2) % 4
             clen == IF ty = 1 THEN 1 ELSE size
         IN  IF offset + 3 + clen > Len(fr) THEN [ok |-> FALSE, bytes |-> <<>>]
             ELSE LET blk == DecodeBlock(dict, ty, size,
                                         SubSeq(fr, offset + 4, offset + 3 + clen))
                  IN  IF ~blk.ok THEN blk
                      ELSE IF last = 1 THEN blk
                      ELSE LET rest == DecodeBlocks(dict, fr, offset + 3 + clen)
                           IN  [ok |-> rest.ok, bytes |-> blk.bytes \o rest.bytes]

Decompress(dict, fr) ==
    IF Len(fr) = 0 THEN [ok |-> FALSE, bytes |-> <<>>]
    ELSE DecodeBlocks(dict, fr, frame_header_size(fr[1]))

\* add_tile, lines 108-131: the grid in tiling order, quantised, as little-endian bytes
add_tile_encode(metadata, data) ==
    LET tiling == metadata.tiling
        tile_size == tiling * tiling
        tiles_per_row == metadata.resolution \div tiling
    IN  [p \in 1 .. (2 * Len(data)) |->
            LET i == (p - 1) \div (tile_size * 2)
                j == ((p - 1) % (tile_size * 2)) \div 2
                x == (i % tiles_per_row) * tiling + (j % tiling)
                y == (i \div tiles_per_row) * tiling + (j \div tiling)
                height == data[y * metadata.resolution + x + 1]
            IN  U16LE(Quantise(height, metadata.height_resolution))[((p - 1) % 2) + 1]]

\* get_tile_and_compressed_size, lines 135-154: tiling order undone, un-quantised
untile(metadata, decompressed) ==
    LET res == metadata.resolution
        tiling == metadata.tiling
        tiles_per_row == res \div tiling
    IN  [q \in 1 .. (res * res) |->
            LET x == (q - 1) % res
                y == (q - 1) \div res
                i == (y \div tiling) * tiles_per_row + (x \div tiling)
                j == (y % tiling) * tiling + (x % tiling)
                p == (i * tiling * tiling + j) * 2
            IN  Unquantise(ReadU16LE(decompressed, p), metadata.height_resolution)]

\* ver3::load and ver4::load after the version dispatch: table, dictionary, payload
load_body(f, version, tile_map_offset, dict_offset, tiling) ==
    IF Len(f) < dict_offset + 8 THEN [err |-> "InvalidFileSize"]
    ELSE LET dict_size == ReadU64LE(f, dict_offset)
             data_offset == dict_offset + dict_size + 8
         IN  IF Len(f) < data_offset THEN [err |-> "InvalidFileSize"]
             ELSE [err |-> "none",
                   metadata |-> [version |-> version,
                                 resolution |-> ReadU16LE(f, 7),
                                 height_resolution |-> ReadU16LE(f, 9),
                                 tiling |-> tiling],
                   tile_map |-> [c \in TileCells |-> ReadU64LE(f, tile_map_offset + 8 * c)],
                   dictionary |-> SubSeq(f, dict_offset + 9, dict_offset + 8 + dict_size),
                   data |-> SubSeq(f, data_offset + 1, Len(f)),
                   data_offset |-> data_offset]

\* a version-3 loader that uses read in place of read_exact: the bytes a short file
\* does not have stay as the zeros the buffer was resized with
ver3_load_padded(f) ==
    LET need == VER3_DICT_OFFSET + 8
        padded == [i \in 1 .. (IF Len(f) < need THEN need ELSE Len(f)) |->
                      IF i <= Len(f) THEN f[i] ELSE 0]
    IN  load_body(padded, 3, VER3_TILE_MAP_OFFSET, VER3_DICT_OFFSET, 1)

ver3_load(f) == load_body(f, 3, VER3_TILE_MAP_OFFSET, VER3_DICT_OFFSET, 1)

\* the tiling of a version-4 container: the header field at 11 that write_to_file
\* writes (the loader in dataset/ver4.rs predates the field)
ver4_tiling(f) == ReadU16LE(f, 11)

ver4_load(f) == load_body(f, 4, VER4_TILE_MAP_OFFSET, VER4_DICT_OFFSET, ver4_tiling(f))

\* Dataset::load with the version match placed ahead of the magic comparison
load_version_first(f) ==
    IF Len(f) < 7 THEN [err |-> "InvalidFileSize"]
    ELSE LET version == ReadU16LE(f, 5)
         IN  IF version \notin {3, 4} THEN [err |-> "UnsupportedFormatVersion"]
             ELSE IF SubSeq(f, 1, 5) # MAGIC THEN [err |-> "InvalidMagic"]
             ELSE IF version = 3 THEN ver3_load(f) ELSE ver4_load(f)

\* Dataset::load
load(f) ==
    IF Len(f) < 7 THEN [err |-> "InvalidFileSize"]
    ELSE IF SubSeq(f, 1, 5) # MAGIC THEN [err |-> "InvalidMagic"]
    ELSE LET version == ReadU16LE(f, 5)
         IN  CASE version = 3 -> ver3_load(f)
               [] version = 4 -> ver4_load(f)
               [] OTHER -> [err |-> "UnsupportedFormatVersion"]

\* Dataset::tile_exists
tile_exists(ds, lat, lon) == ds.tile_map[map_lat_lon_to_index(lat, lon)] # 0

\* Dataset::get_tile: None, an error, or the grid
get_tile(ds, lat, lon) ==
    LET index == map_lat_lon_to_index(lat, lon)
        offset == ds.tile_map[index]
        res == ds.metadata.resolution
    IN  IF offset = 0 THEN [kind |-> "None"]
        ELSE IF offset < ds.data_offset \/ offset - ds.data_offset > Len(ds.data)
        THEN [kind |-> "Panic"]
        ELSE IF ds.metadata.tiling = 0 THEN [kind |-> "Panic"]
        ELSE LET fr == SubSeq(ds.data, offset - ds.data_offset + 1, Len(ds.data))
                 dec == Decompress(ds.dictionary, fr)
             IN  IF ~dec.ok \/ Len(dec.bytes) < res * res * 2 THEN [kind |-> "Err"]
                 ELSE [kind |-> "Ok", grid |-> untile(ds.metadata, dec.bytes)]

\* Dataset::get_tile_compressed_size
get_tile_compressed_size(ds, lat, lon) ==
    LET offset == ds.tile_map[map_lat_lon_to_index(lat, lon)]
    IN  IF offset = 0 THEN 0
        ELSE tile_frame_size(SubSeq(ds.data, offset - ds.data_offset + 1, Len(ds.data)))

\* the loop of Dataset::get_orphaned_tiles from the payload offset given: offsets
\* is the set of table entries not met yet, ret the ranges collected so far
RECURSIVE orphans_from(_, _, _, _)
orphans_from(ds, offset, offsets, ret) ==
    IF offset > Len(ds.data) THEN [kind |-> "Panic"]
    ELSE IF offset = Len(ds.data) THEN [kind |-> "Ok", ret |-> ret]
    ELSE LET tile_offset == offset + ds.data_offset
             size == tile_frame_size(SubSeq(ds.data, offset + 1, Len(ds.data)))
         IN  IF size = -1 THEN [kind |-> "Panic"]
             ELSE IF tile_offset \in offsets
             THEN orphans_from(ds, offset + size, offsets \ {tile_offset}, ret)
             ELSE orphans_from(ds, offset + size, offsets, Append(ret, <<offset, size>>))

\* Dataset::get_orphaned_tiles
get_orphaned_tiles(ds) ==
    orphans_from(ds, 0, {ds.tile_map[c] : c \in TileCells} \ {0}, <<>>)

(***************************************************************************)
(* The builder as a state machine: NumThreads threads share one builder;   *)
(* each call is a sequence of steps, those of the critical section taken   *)
(* while the thread owns the write lock.                                   *)
(***************************************************************************)
BuilderResolution == 4
MaxAdds == 2
MaxFlushes == 2
Threads == {1, 2}

\* metadata.version: lib.rs declares format 3, the 13-byte header written by
\* write_to_file and the second arm of flush are those of format 4
Versions == {FORMAT_VERSION, 4}
Tilings == {t \in {1, 2} : BuilderResolution % t = 0}
BuilderHeightRes == {1, 5}
Dictionaries == {<<>>, <<244, 1>>}

GridOf(base, step) == [i \in 1 .. (BuilderResolution * BuilderResolution) |-> base + step * (i - 1)]
Grids == {GridOf(0, 5), GridOf(-500, 101)}
SourceGrid == GridOf(0, 10)

CellLat == -90
CellLons == {c - 180 : c \in TileCells}

NoGrid == [none |-> TRUE]
OpenPhases == {"building", "appending"}
ReadPhases == {"reading", "rereading"}
NoFlush == [done |-> FALSE, table |-> <<>>, nwrites |-> 0]
NoReader == [err |-> "closed"]
NoCall == [pc |-> "idle", index |-> 0, temp |-> <<>>, offset |-> 0, grid |-> <<>>, wid |-> 0]

BuilderIdle ==
    /\ bMetadata = NoGrid /\ bDictionary = <<>> /\ bFile = <<>> /\ bCursor = 0
    /\ bTileMap = <<>> /\ bLock = 0 /\ thr = <<>> /\ writes = <<>> /\ supplied = <<>>
    /\ lastFlush = NoFlush /\ adds = 0 /\ flushes = 0 /\ phase = "off"
    /\ reader = NoReader /\ got = NoGrid /\ opened = NoGrid

\* the dataset handed to add_tile_from_dataset: same metadata and dictionary as the
\* builder's (the asserts of lines 73-91), one tile at cell 0
SourceDataset(metadata, dict) ==
    LET off == VER4_DICT_OFFSET + 8 + Len(dict)
    IN  [err |-> "none", metadata |-> metadata,
         tile_map |-> [c \in TileCells |-> IF c = 0 THEN off ELSE 0],
         dictionary |-> dict,
         data |-> Compress(dict, add_tile_encode(metadata, SourceGrid)),
         data_offset |-> off]

(***************************************************************************)
(* The palette stage of the encoder, which is not part of this source      *)
(* tree: the payload of each form for a grid of residuals, as the decoder  *)
(* above and the format description lay it out. Water is the residual 0.   *)
(***************************************************************************)
SetMin(S) == CHOOSE m \in S : \A v \in S : m <= v

RECURSIVE SortedSeq(_)
SortedSeq(S) ==
    IF S = {} THEN <<>> ELSE <<SetMin(S)>> \o SortedSeq(S \ {SetMin(S)})

RECURSIVE FlattenBytes(_)
FlattenBytes(ss) ==
    IF Len(ss) = 0 THEN <<>> ELSE Head(ss) \o FlattenBytes(Tail(ss))

IndexIn(seq, v) == CHOOSE k \in 1 .. Len(seq) : seq[k] = v

\* the values of the pixels after the first, which is always stored as it is
RestValues(r) == {r[i] : i \in 2 .. Len(r)}

\* two bytes per pixel: the minimum, then every pixel minus the minimum
raw2_payload(r) ==
    LET min == SetMin({r[i] : i \in 1 .. Len(r)})
    IN  U16LE(min) \o FlattenBytes([i \in 1 .. Len(r) |-> U16LE(r[i] - min)])

\* one byte per pixel: the minimum of the non-water pixels, the first pixel, then
\* 0 for water and the pixel minus the minimum plus one otherwise
raw1_min(r) ==
    IF RestValues(r) \ {0} = {} THEN 0 ELSE SetMin(RestValues(r) \ {0})

raw1_fits(r) == \A v \in RestValues(r) \ {0} : v - raw1_min(r) + 1 <= 255

raw1_payload(r) ==
    U16LE(raw1_min(r)) \o U16LE(r[1]) \o
    [i \in 1 .. (Len(r) - 1) |->
        IF r[i + 1] = 0 THEN 0 ELSE r[i + 1] - raw1_min(r) + 1]

\* the palette forms: the sorted palette as its first value and the later deltas
\* minus one (two bytes or one byte each), the first pixel, one index per pixel
palette_of(r) == SortedSeq(RestValues(r))

pal1_fits(r) ==
    \A k \in 2 .. Len(palette_of(r)) : palette_of(r)[k] - palette_of(r)[k - 1] - 1 <= 255

pal_indices(r) == [i \in 1 .. (Len(r) - 1) |-> IndexIn(palette_of(r), r[i + 1]) - 1]

pal2_payload(r) ==
    LET p == palette_of(r)
    IN  <<Len(p) - 1>> \o U16LE(p[1])
        \o FlattenBytes([k \in 1 .. (Len(p) - 1) |-> U16LE(p[k + 1] - p[k] - 1)])
        \o U16LE(r[1]) \o pal_indices(r)

pal1_payload(r) ==
    LET p == palette_of(r)
    IN  <<Len(p) - 1>> \o U16LE(p[1])
        \o [k \in 1 .. (Len(p) - 1) |-> p[k + 1] - p[k] - 1]
        \o U16LE(r[1]) \o pal_indices(r)

PaletteForms == {"raw2", "raw1", "pal2", "pal1"}

form_fits(form, r) ==
    CASE form = "raw1" -> raw1_fits(r)
      [] form = "pal1" -> pal1_fits(r)
      [] OTHER -> TRUE

form_payload(form, r) ==
    CASE form = "raw2" -> raw2_payload(r)
      [] form = "raw1" -> raw1_payload(r)
      [] form = "pal2" -> pal2_payload(r)
      [] OTHER -> pal1_payload(r)

(***************************************************************************)
(* Harness for the pure functions.                                         *)
(***************************************************************************)
NoPure == [none |-> TRUE]

PureIdle == fpc = "off" /\ fin = NoPure /\ fout = NoPure

(***************************************************************************)
(* The render loop: one populate_tiles call per frame.                     *)
(***************************************************************************)
\* Atlas::lods: the dataset each range selects (computed once in Atlas::new)
lods == <<1, 2>>
Ranges == DOMAIN lods

\* Atlas::get_resolution: the height is the largest dataset's resolution times the
\* tiles a range loads vertically (at least 2), the width is that times the aspect
\* ratio (here 1/2 or 1); Atlas::new clamps both to the device limit.
AtlasHeight == 2 * 1024
AtlasWidths == {AtlasHeight \div 2, AtlasHeight}

\* Tile resolutions of the two datasets
Resolutions == <<1024, 512>>

\* What get_tile gives for a cell: a grid, None (no such tile) or an error
TilePatterns ==
    {[c \in Cells |-> "ok"],
     [c \in Cells |-> IF c = 0 THEN "none" ELSE "ok"],
     [c \in Cells |-> IF c = NumCells - 1 THEN "err" ELSE "ok"]}

NoAtlas == [none |-> TRUE]

AtlasIdle ==
    /\ atlas = NoAtlas /\ tiles = <<>> /\ datasets = <<>>
    /\ used = <<>> /\ range = 0 /\ status = "off" /\ uploads = 0 /\ frame = 0
    /\ upCount = 0 /\ upRet = None
    /\ tile_map_texture = <<>>

\* the tile map texture as device.create_texture leaves it: every texel zero
NewTileMap == [c \in Cells |-> TileOffset(0, 0)]

\* queue.write_texture(self.tile_map, self.tiles) after the loop of populate_tiles,
\* on every way out of the loop but the failed expect, which unwinds before it
write_texture(st, texture) ==
    IF st.status = "Panic" THEN texture ELSE st.tiles

\* Atlas::new and TileCache::new
NewAtlas(w, h) ==
    [width |-> Min(w, MaxTextureDim), height |-> Min(h, MaxTextureDim),
     curr_tile_res |-> 0, curr_offset |-> TileOffset(0, 0), collected_tiles |-> <<>>]

AtlasInit ==
    /\ PureIdle
    /\ BuilderIdle
    /\ \E w \in AtlasWidths : atlas = NewAtlas(w, AtlasHeight)
    /\ tiles = [c \in Cells |-> unloaded(atlas)]
    /\ \E p \in TilePatterns :
          datasets = <<[resolution |-> Resolutions[1], tiles |-> p],
                       [resolution |-> Resolutions[2], tiles |-> p]>>
    /\ used = [c \in Cells |-> 0]
    /\ range = 0
    /\ status = "None"
    /\ uploads = 0
    /\ frame = 0
    /\ upCount = 0 /\ upRet = None
    /\ tile_map_texture = NewTileMap

UsedMasks == [Cells -> {0, 1}]

\* One frame: Renderer::render calls populate_tiles with the mask the shader wrote
Populate ==
    /\ status # "Panic"
    /\ frame < MaxFrames
    /\ frame' = frame + 1
    /\ \E u \in UsedMasks, r \in Ranges :
          LET st == populate_tiles(atlas, tiles, datasets, lods, u, r)
          IN  /\ atlas' = st.atlas
              /\ tiles' = st.tiles
              /\ status' = st.status
              /\ uploads' = st.uploads
              /\ used' = u
              /\ range' = r
              /\ tile_map_texture' = write_texture(st, tile_map_texture)
    /\ UNCHANGED <<datasets, upCount, upRet>>
    /\ UNCHANGED pureVars
    /\ UNCHANGED builderVars

SpecAtlas == AtlasInit /\ [][Populate]_vars

(***************************************************************************)
(* The render loop of a display that starts on the first range: the first  *)
(* frame selects the dataset of range 1, later frames any range.           *)
(***************************************************************************)
FirstFrame ==
    /\ frame = 0
    /\ Populate
    /\ range' = 1

LaterFrame ==
    /\ frame > 0
    /\ Populate

SwitchNext == FirstFrame \/ LaterFrame

SpecSwitch == AtlasInit /\ [][SwitchNext]_vars

(***************************************************************************)
(* The same render loop started on atlases of several sizes: with the      *)
(* smaller pair of datasets the atlas Atlas::new makes is below the device *)
(* limit on both axes, so that it can grow.                                *)
(***************************************************************************)
\* the tile resolutions of the two datasets, largest first
GrowResolutions == {<<1024, 512>>, <<512, 256>>}

\* options.width / options.height of the display, as numerator and denominator
AspectRatios == {<<1, 2>>, <<1, 1>>, <<2, 1>>}

\* Atlas::get_resolution for ranges that load two tiles vertically
get_resolution(aspect_ratio, resolutions) ==
    LET max_resolution == 2 * resolutions[1]
    IN  <<(max_resolution * aspect_ratio[1]) \div aspect_ratio[2], max_resolution>>

GrowInit ==
    /\ PureIdle
    /\ BuilderIdle
    /\ \E rs \in GrowResolutions, ar \in AspectRatios, p \in TilePatterns :
          /\ atlas = NewAtlas(get_resolution(ar, rs)[1], get_resolution(ar, rs)[2])
          /\ datasets = <<[resolution |-> rs[1], tiles |-> p],
                          [resolution |-> rs[2], tiles |-> p]>>
    /\ tiles = [c \in Cells |-> unloaded(atlas)]
    /\ used = [c \in Cells |-> 0]
    /\ range = 0
    /\ status = "None"
    /\ uploads = 0
    /\ frame = 0
    /\ upCount = 0 /\ upRet = None
    /\ tile_map_texture = NewTileMap

SpecGrow == GrowInit /\ [][Populate]_vars

(***************************************************************************)
(* The same render loop on a display that is taller than twice its width.  *)
(***************************************************************************)
TallAspectRatios == {<<1, 4>>}

TallInit ==
    /\ PureIdle
    /\ BuilderIdle
    /\ \E rs \in GrowResolutions, ar \in TallAspectRatios, p \in TilePatterns :
          /\ atlas = NewAtlas(get_resolution(ar, rs)[1], get_resolution(ar, rs)[2])
          /\ datasets = <<[resolution |-> rs[1], tiles |-> p],
                          [resolution |-> rs[2], tiles |-> p]>>
    /\ tiles = [c \in Cells |-> unloaded(atlas)]
    /\ used = [c \in Cells |-> 0]
    /\ range = 0
    /\ status = "None"
    /\ uploads = 0
    /\ frame = 0
    /\ upCount = 0 /\ upRet = None
    /\ tile_map_texture = NewTileMap

SpecTall == TallInit /\ [][Populate]_vars

(***************************************************************************)
(* The same render loop over datasets with a tile that fails to decode:    *)
(* the first cell the loop visits, or one visited between two others.      *)
(***************************************************************************)
ErrPatterns == {[c \in Cells |-> IF c = e THEN "err" ELSE "ok"] : e \in {0, GridLon}}

DecodeErrInit ==
    /\ PureIdle
    /\ BuilderIdle
    /\ \E w \in AtlasWidths : atlas = NewAtlas(w, AtlasHeight)
    /\ tiles = [c \in Cells |-> unloaded(atlas)]
    /\ \E p \in ErrPatterns :
          datasets = <<[resolution |-> Resolutions[1], tiles |-> p],
                       [resolution |-> Resolutions[2], tiles |-> p]>>
    /\ used = [c \in Cells |-> 0]
    /\ range = 0
    /\ status = "None"
    /\ uploads = 0
    /\ frame = 0
    /\ upCount = 0 /\ upRet = None
    /\ tile_map_texture = NewTileMap

SpecDecodeErr == DecodeErrInit /\ [][Populate]_vars

(***************************************************************************)
(* Renderer::render and the device (render/src/lib.rs, map-server's        *)
(* request loop). The tile status buffer lives on the device; render reads *)
(* it back inside populate_tiles, then records a clear of it and the       *)
(* heightmap pass into the caller's command encoder; the caller submits    *)
(* the encoder and the device runs the commands in the order recorded.     *)
(* fin holds the buffer, the encoder and the submitted commands not yet    *)
(* run; fout holds what the last read-back saw, what the last heightmap    *)
(* pass wrote, and how many read-backs, clears and passes have happened.   *)
(* The uniform buffer, the bind group and the final pass do not touch the  *)
(* status buffer and are left out.                                         *)
(***************************************************************************)
\* encoder.clear_buffer(tile_status, 0, None) recorded as a command that does nothing
clear_buffer_kept(buffer) == buffer

\* encoder.clear_buffer(tile_status, 0, None), when the device runs it
clear_buffer(buffer) == [c \in Cells |-> 0]

\* the heightmap pass's fragment shader: 1 at every cell it sampled
heightmap_pass(buffer, sampled) ==
    [c \in Cells |-> IF sampled[c] = 1 THEN 1 ELSE buffer[c]]

RenderInit ==
    /\ fpc = "render_idle"
    /\ fin = [tile_status |-> [c \in Cells |-> 0], encoder |-> <<>>, queue |-> <<>>]
    /\ fout = [seen |-> [c \in Cells |-> 0], wrote |-> [c \in Cells |-> 0],
               reads |-> 0, clears |-> 0, passes |-> 0]
    /\ BuilderIdle
    /\ \E w \in AtlasWidths : atlas = NewAtlas(w, AtlasHeight)
    /\ tiles = [c \in Cells |-> unloaded(atlas)]
    /\ \E p \in TilePatterns :
          datasets = <<[resolution |-> Resolutions[1], tiles |-> p],
                       [resolution |-> Resolutions[2], tiles |-> p]>>
    /\ used = [c \in Cells |-> 0]
    /\ range = 0
    /\ status = "None"
    /\ uploads = 0
    /\ frame = 0
    /\ upCount = 0 /\ upRet = None
    /\ tile_map_texture = NewTileMap

\* render, line 306: populate_tiles maps the buffer, waits for the device
\* (device.poll(Maintain::Wait) returns when every submitted command has run),
\* reads the mask and runs the frame's loop on it
RenderPopulate ==
    /\ fpc = "render_idle"
    /\ fin.queue = <<>>
    /\ status # "Panic"
    /\ frame < MaxFrames
    /\ frame' = frame + 1
    /\ \E r \in Ranges :
          LET st == populate_tiles(atlas, tiles, datasets, lods, fin.tile_status, r)
          IN  /\ atlas' = st.atlas
              /\ tiles' = st.tiles
              /\ status' = st.status
              /\ uploads' = st.uploads
              /\ used' = fin.tile_status
              /\ range' = r
              /\ tile_map_texture' = write_texture(st, tile_map_texture)
              /\ fpc' = IF st.status = "Panic" THEN "render_panic" ELSE "render_populated"
    /\ fout' = [fout EXCEPT !.seen = fin.tile_status, !.reads = @ + 1]
    /\ UNCHANGED <<fin, datasets, upCount, upRet>>
    /\ UNCHANGED builderVars

\* render, line 311: encoder.clear_buffer(self.cache.tile_status(), 0, None)
RenderClearBuffer ==
    /\ fpc = "render_populated"
    /\ fin' = [fin EXCEPT !.encoder = Append(@, "clear_buffer")]
    /\ fpc' = "render_cleared"
    /\ UNCHANGED fout
    /\ UNCHANGED atlasVars
    /\ UNCHANGED builderVars

\* render, lines 318-334: the heightmap pass recorded into the same encoder
RenderHeightmapPass ==
    /\ fpc = "render_cleared"
    /\ fin' = [fin EXCEPT !.encoder = Append(@, "heightmap_pass")]
    /\ fpc' = "render_recorded"
    /\ UNCHANGED fout
    /\ UNCHANGED atlasVars
    /\ UNCHANGED builderVars

\* the caller: queue.submit([encoder.finish()])
RenderSubmit ==
    /\ fpc = "render_recorded"
    /\ fin' = [fin EXCEPT !.queue = @ \o fin.encoder, !.encoder = <<>>]
    /\ fpc' = "render_idle"
    /\ UNCHANGED fout
    /\ UNCHANGED atlasVars
    /\ UNCHANGED builderVars

\* the device runs the oldest submitted command
DeviceClear ==
    /\ fin.queue # <<>>
    /\ Head(fin.queue) = "clear_buffer"
    /\ fin' = [fin EXCEPT !.queue = Tail(@), !.tile_status = clear_buffer(@)]
    /\ fout' = [fout EXCEPT !.clears = @ + 1]
    /\ UNCHANGED fpc
    /\ UNCHANGED atlasVars
    /\ UNCHANGED builderVars

DevicePass ==
    /\ fin.queue # <<>>
    /\ Head(fin.queue) = "heightmap_pass"
    /\ \E sampled \in UsedMasks :
          /\ fin' = [fin EXCEPT !.queue = Tail(@),
                                !.tile_status = heightmap_pass(@, sampled)]
          /\ fout' = [fout EXCEPT !.wrote = sampled, !.passes = @ + 1]
    /\ UNCHANGED fpc
    /\ UNCHANGED atlasVars
    /\ UNCHANGED builderVars

RenderNext ==
    \/ RenderPopulate
    \/ RenderClearBuffer
    \/ RenderHeightmapPass
    \/ RenderSubmit
    \/ DeviceClear
    \/ DevicePass

SpecRender == RenderInit /\ [][RenderNext]_vars

(***************************************************************************)
(* Admissions into an empty atlas: upload_tile called until it refuses.    *)
(***************************************************************************)
UploadSides == {1024, 2048}
UploadResolutions == {256, 512, 1024}

UploadInit ==
    /\ PureIdle
    /\ BuilderIdle
    /\ \E w \in UploadSides, h \in UploadSides, res \in UploadResolutions :
          atlas = atlas_clear(NewAtlas(w, h), res)
    /\ tiles = <<>> /\ datasets = <<>> /\ used = <<>> /\ range = 0
    /\ status = "upload" /\ uploads = 0 /\ frame = 0
    /\ upCount = 0 /\ upRet = None
    /\ tile_map_texture = <<>>

UploadStep ==
    /\ status = "upload"
    /\ upCount = 0 \/ upRet # None
    /\ LET up == upload_tile(atlas)
       IN  /\ atlas' = up.atlas
           /\ upRet' = up.ret
    /\ upCount' = upCount + 1
    /\ UNCHANGED <<tiles, datasets, used, range, status, uploads, frame, tile_map_texture>>
    /\ UNCHANGED pureVars
    /\ UNCHANGED builderVars

SpecUpload == UploadInit /\ [][UploadStep]_vars


\* ---- cell index ----
IndexInit ==
    /\ fpc = "index_in"
    /\ \/ \E lat \in -90 .. 89, lon \in -180 .. 179 :
             fin = [kind |-> "latlon", lat |-> lat, lon |-> lon]
       \/ \E i \in 0 .. (LatCount * LonCount - 1) :
             fin = [kind |-> "index", index |-> i]
    /\ fout = NoPure
    /\ AtlasIdle
    /\ BuilderIdle

IndexForward ==
    /\ fpc = "index_in"
    /\ fin.kind = "latlon"
    /\ fout' = [index |-> map_lat_lon_to_index(fin.lat, fin.lon),
                back |-> map_index_to_lat_lon(map_lat_lon_to_index(fin.lat, fin.lon))]
    /\ fpc' = "index_out"
    /\ UNCHANGED fin
    /\ UNCHANGED atlasVars
    /\ UNCHANGED builderVars

IndexBackward ==
    /\ fpc = "index_in"
    /\ fin.kind = "index"
    /\ fout' = [latlon |-> map_index_to_lat_lon(fin.index),
                back |-> map_lat_lon_to_index(map_index_to_lat_lon(fin.index)[1],
                                              map_index_to_lat_lon(fin.index)[2])]
    /\ fpc' = "index_out"
    /\ UNCHANGED fin
    /\ UNCHANGED atlasVars
    /\ UNCHANGED builderVars

IndexNext == IndexForward \/ IndexBackward

SpecIndex == IndexInit /\ [][IndexNext]_vars

\* ---- quantisation ----
HeightResolutions == {1, 5, 50}
MaxHeight == 10000

QuantInit ==
    /\ fpc = "quant_in"
    /\ \E h \in WaterHeight .. MaxHeight, hr \in HeightResolutions :
          fin = [height |-> h, height_resolution |-> hr]
    /\ fout = NoPure
    /\ AtlasIdle
    /\ BuilderIdle

QuantEncode ==
    /\ fpc = "quant_in"
    /\ fout' = [value |-> Quantise(fin.height, fin.height_resolution)]
    /\ fpc' = "quant_mid"
    /\ UNCHANGED fin
    /\ UNCHANGED atlasVars
    /\ UNCHANGED builderVars

QuantDecode ==
    /\ fpc = "quant_mid"
    /\ fout' = [value |-> fout.value,
                height |-> Unquantise(fout.value, fin.height_resolution),
                height6 |-> unmap(fin.height_resolution, fout.value)]
    /\ fpc' = "quant_out"
    /\ UNCHANGED fin
    /\ UNCHANGED atlasVars
    /\ UNCHANGED builderVars

QuantNext == QuantEncode \/ QuantDecode

SpecQuant == QuantInit /\ [][QuantNext]_vars

\* ---- version-6 decoder ----
CodecRes == 3
CodecPixels == 1 .. (CodecRes * CodecRes)

\* residual grids: every pattern of water, the other pixels biased residuals that
\* are all equal, close together, or far apart
ResidualKinds == {"flat", "near", "far", "low"}
ResidualAt(kind, i) ==
    CASE kind = "flat" -> 7000
      [] kind = "near" -> 6998 + i
      [] kind = "far" -> 6500 + 300 * i
      [] OTHER -> 50 + i

\* a palette payload as long as a raw form is read as that raw form; a palette has
\* at most 256 entries, so this takes a tile of fewer than 23 pixels a side, and
\* the grids decoded here keep clear of it
LengthTellsForm(form, payload) ==
    form \in {"pal2", "pal1"} =>
        Len(payload) \notin {CodecRes * CodecRes * 2 + 2, CodecRes * CodecRes + 3}

CodecInit ==
    /\ fpc = "codec_in"
    /\ \E water \in SUBSET CodecPixels, kind \in ResidualKinds, form \in PaletteForms,
          hr \in HeightResolutions :
          LET r == [i \in CodecPixels |-> IF i \in water THEN 0 ELSE ResidualAt(kind, i)]
          IN  /\ form_fits(form, r)
              /\ LengthTellsForm(form, form_payload(form, r))
              /\ fin = [form |-> form, residuals |-> r, height_resolution |-> hr,
                        payload |-> form_payload(form, r)]
    /\ fout = NoPure
    /\ AtlasIdle
    /\ BuilderIdle

CodecUnpalette ==
    /\ fpc = "codec_in"
    /\ fout' = [unpaletted |-> unpalette(CodecRes, fin.payload)]
    /\ fpc' = IF unpalette(CodecRes, fin.payload) = Panicked THEN "codec_panic" ELSE "codec_unpaletted"
    /\ UNCHANGED fin
    /\ UNCHANGED atlasVars
    /\ UNCHANGED builderVars

CodecUnpredict ==
    /\ fpc = "codec_unpaletted"
    /\ fout' = [unpaletted |-> fout.unpaletted,
                unpredicted |-> unpredict(CodecRes, fout.unpaletted)]
    /\ fpc' = "codec_unpredicted"
    /\ UNCHANGED fin
    /\ UNCHANGED atlasVars
    /\ UNCHANGED builderVars

CodecUnmap ==
    /\ fpc = "codec_unpredicted"
    /\ fout' = [unpaletted |-> fout.unpaletted,
                unpredicted |-> fout.unpredicted,
                output |-> unmap_grid(fin.height_resolution, fout.unpredicted)]
    /\ fpc' = "codec_out"
    /\ UNCHANGED fin
    /\ UNCHANGED atlasVars
    /\ UNCHANGED builderVars

CodecNext == CodecUnpalette \/ CodecUnpredict \/ CodecUnmap

SpecCodec == CodecInit /\ [][CodecNext]_vars

(***************************************************************************)
(* The form unpalette reads a payload as, decided from the payload's       *)
(* length, the tile resolution and the palette length in the first byte.   *)
(***************************************************************************)
MaxFormRes == 24
MAX_PALETTE_LEN == 256

\* the test of the one-byte raw form made against res * res + 2
unpalette_form_short_raw1(res, len, palette_len) ==
    IF len = res * res * 2 + 2 THEN "raw2"
    ELSE IF len = res * res + 2 THEN "raw1"
    ELSE IF len < res * res + 2 THEN "panic"
    ELSE LET raw_len == len - (res * res + 2)
         IN  IF raw_len = palette_len * 2 THEN "pal2"
             ELSE IF raw_len = palette_len + 1 THEN "pal1"
             ELSE "panic"

\* unpalette, lines 69-120: the branch taken
unpalette_form(res, len, palette_len) ==
    IF len = res * res * 2 + 2 THEN "raw2"
    ELSE IF len = res * res + 3 THEN "raw1"
    ELSE IF len < res * res + 2 THEN "panic"
    ELSE LET raw_len == len - (res * res + 2)
         IN  IF raw_len = palette_len * 2 THEN "pal2"
             ELSE IF raw_len = palette_len + 1 THEN "pal1"
             ELSE "panic"

\* the sections of a payload as each branch of unpalette reads them: the palette
\* length byte, the minimum or the first palette entry, the later palette entries,
\* the first pixel, the remaining pixels
payload_sections(form, res, palette_len) ==
    CASE form = "raw2" -> <<0, 2, 0, 2, 2 * (res * res - 1)>>
      [] form = "raw1" -> <<0, 2, 0, 2, res * res - 1>>
      [] form = "pal2" -> <<1, 2, 2 * (palette_len - 1), 2, res * res - 1>>
      [] OTHER -> <<1, 2, palette_len - 1, 2, res * res - 1>>

payload_len(form, res, palette_len) ==
    LET p == payload_sections(form, res, palette_len)
    IN  p[1] + p[2] + p[3] + p[4] + p[5]

\* a palette holds the distinct values of the pixels after the first
FormsInit ==
    /\ fpc = "forms_in"
    /\ \E res \in 2 .. MaxFormRes, form \in PaletteForms :
          \E palette_len \in 1 .. Min(MAX_PALETTE_LEN, res * res - 1) :
              fin = [res |-> res, form |-> form, palette_len |-> palette_len]
    /\ fout = NoPure
    /\ AtlasIdle
    /\ BuilderIdle

\* unpalette on a payload of the form, for the branch it takes
FormsUnpalette ==
    /\ fpc = "forms_in"
    /\ fout' = [len |-> payload_len(fin.form, fin.res, fin.palette_len),
                read_as |-> unpalette_form(fin.res,
                                           payload_len(fin.form, fin.res, fin.palette_len),
                                           fin.palette_len)]
    /\ fpc' = "forms_out"
    /\ UNCHANGED fin
    /\ UNCHANGED atlasVars
    /\ UNCHANGED builderVars

SpecForms == FormsInit /\ [][FormsUnpalette]_vars

(***************************************************************************)
(* Dataset::tile_frame_size on frames of every header layout and of one or *)
(* two blocks of every type, at least one of them marked as the last. The  *)
(* bytes after the first last block stand for the frame of the next tile.  *)
(***************************************************************************)
MaxBlocks == 2
BlockTypes == 0 .. 3
BlockContentSizes == {0, 2}

FrameBlock == [ty : BlockTypes, size : BlockContentSizes, last : {0, 1}]
FrameBlockSeqs ==
    {b \in UNION {[1 .. n -> FrameBlock] : n \in 1 .. MaxBlocks} :
        \E k \in 1 .. Len(b) : b[k].last = 1}

\* the bytes of a block: the 3-byte header, then the content (one byte for RLE)
block_bytes(b) ==
    U24LE(b.size * 8 + b.ty * 2 + b.last)
        \o [i \in 1 .. (IF b.ty = 1 THEN 1 ELSE b.size) |-> 170]

RECURSIVE blocks_bytes(_, _)
blocks_bytes(bs, k) == IF k > Len(bs) THEN <<>> ELSE block_bytes(bs[k]) \o blocks_bytes(bs, k + 1)

\* the bytes of a frame: descriptor, window byte, dictionary id, content size, blocks
frame_bytes(f) ==
    <<f.dict_id + 32 * f.single_segment + 64 * f.size_id>>
        \o [i \in 1 .. (1 - f.single_segment) |-> 88]
        \o [i \in 1 .. (CASE f.dict_id = 0 -> 0 [] f.dict_id = 1 -> 1
                           [] f.dict_id = 2 -> 2 [] OTHER -> 4) |-> 7]
        \o [i \in 1 .. (CASE f.size_id = 0 -> f.single_segment [] f.size_id = 1 -> 2
                           [] f.size_id = 2 -> 4 [] OTHER -> 8) |-> 5]
        \o blocks_bytes(f.blocks, 1)

FrameSizeInit ==
    /\ fpc = "frame_in"
    /\ \E dict_id \in 0 .. 3, single_segment \in {0, 1}, size_id \in 0 .. 3,
          blocks \in FrameBlockSeqs :
          fin = [dict_id |-> dict_id, single_segment |-> single_segment,
                 size_id |-> size_id, blocks |-> blocks]
    /\ fout = NoPure
    /\ AtlasIdle
    /\ BuilderIdle

\* Dataset::tile_frame_size(frame); -1 is the panic
FrameSizeCall ==
    /\ fpc = "frame_in"
    /\ fout' = [size |-> tile_frame_size(frame_bytes(fin))]
    /\ fpc' = "frame_out"
    /\ UNCHANGED fin
    /\ UNCHANGED atlasVars
    /\ UNCHANGED builderVars

SpecFrameSize == FrameSizeInit /\ [][FrameSizeCall]_vars

(***************************************************************************)
(* A version-6 reader (dataset/ver6.rs) holding two tiles, the first of    *)
(* which may be damaged, and a caller that reads tiles from it. A panic    *)
(* ends the caller.                                                        *)
(***************************************************************************)
\* ver6::decompress: a frame without dictionary, read from data to its last block
ver6_decompress(data) == Decompress(<<>>, data)

\* ver6::get_tile for the cell of table index c
ver6_get_tile(this, c) ==
    LET offset == this.tile_map[c]
    IN  IF offset = 0 THEN [kind |-> "none"]
        ELSE LET rest == SubSeq(this.data, offset - this.data_offset + 1, Len(this.data))
                 res == this.metadata.resolution
                 d == ver6_decompress(rest)
             IN  IF ~d.ok THEN [kind |-> "err"]
                 ELSE IF unpalette(res, d.bytes) = Panicked THEN [kind |-> "panic"]
                 ELSE [kind |-> "ok",
                       output |-> unmap_grid(this.metadata.height_resolution,
                                             unpredict(res, unpalette(res, d.bytes)))]

\* the conditions under which unpalette takes one of its four forms (lines 69-119)
matches_a_form(res, payload) ==
    \/ Len(payload) = res * res * 2 + 2
    \/ Len(payload) = res * res + 3
    \/ /\ Len(payload) >= res * res + 2
       /\ LET palette_len == payload[1] + 1
              raw_len == Len(payload) - (res * res + 2)
          IN  raw_len = palette_len * 2 \/ raw_len = palette_len + 1

\* the ways the first tile is stored: intact; an entropy frame whose block has the
\* reserved type; a payload one byte too long; a palette payload whose last pixel
\* names an entry the palette does not have
TileDamages == {"good", "bad_frame", "bad_length", "bad_index"}

damaged_frame(damage, payload) ==
    CASE damage = "good" -> Compress(<<>>, payload)
      [] damage = "bad_frame" -> <<0, 0>> \o BlockHeader(3, Len(payload)) \o payload
      [] damage = "bad_length" -> Compress(<<>>, Append(payload, 0))
      [] OTHER -> Compress(<<>>, [payload EXCEPT ![Len(payload)] = 255])

MaxTileReads == 2

Ver6Init ==
    /\ fpc = "ver6_open"
    /\ \E damage \in TileDamages, kind0 \in ResidualKinds, form0 \in PaletteForms,
          form1 \in PaletteForms, hr \in {1, 5} :
          LET r0 == [i \in CodecPixels |-> ResidualAt(kind0, i)]
              r1 == [i \in CodecPixels |-> IF i % 2 = 0 THEN 0 ELSE ResidualAt("near", i)]
              frame0 == damaged_frame(damage, form_payload(form0, r0))
              frame1 == Compress(<<>>, form_payload(form1, r1))
              data_offset == 11 + TileMapLen * 8
          IN  /\ form_fits(form0, r0) /\ LengthTellsForm(form0, form_payload(form0, r0))
              /\ form_fits(form1, r1) /\ LengthTellsForm(form1, form_payload(form1, r1))
              /\ damage = "bad_length" =>
                     ~matches_a_form(CodecRes, Append(form_payload(form0, r0), 0))
              /\ damage = "bad_index" => form0 \in {"pal2", "pal1"}
              /\ fin = [damage |-> damage,
                        this |-> [metadata |-> [version |-> 6, resolution |-> CodecRes,
                                                height_resolution |-> hr],
                                  tile_map |-> [c \in TileCells |->
                                                   IF c = 0 THEN data_offset
                                                   ELSE IF c = 1 THEN data_offset + Len(frame0)
                                                   ELSE 0],
                                  data |-> frame0 \o frame1,
                                  data_offset |-> data_offset]]
    /\ fout = <<>>
    /\ AtlasIdle
    /\ BuilderIdle

\* one call of get_tile; fout lists the calls that returned, in order
Ver6GetTile ==
    /\ fpc = "ver6_open"
    /\ Len(fout) < MaxTileReads
    /\ \E c \in TileCells :
          LET ret == ver6_get_tile(fin.this, c)
          IN  IF ret.kind = "panic"
              THEN fpc' = "ver6_panicked" /\ fout' = fout
              ELSE fpc' = fpc /\ fout' = Append(fout, [cell |-> c, kind |-> ret.kind])
    /\ UNCHANGED fin
    /\ UNCHANGED atlasVars
    /\ UNCHANGED builderVars

Ver6Next == Ver6GetTile

SpecVer6 == Ver6Init /\ [][Ver6Next]_vars

(***************************************************************************)
(* Dataset::load on files that are damaged in the header or cut short.     *)
(***************************************************************************)
\* Hillshade::MAGIC
HILLSHADE_MAGIC == <<98, 117, 115, 115, 121>>

\* the five leading bytes tried: the dataset magic, the hillshade magic, and the
\* dataset magic with its last byte cleared
LoadMagics == {MAGIC, HILLSHADE_MAGIC, <<115, 117, 115, 115, 0>>}

\* the version words tried: the two the loader dispatches on, their neighbours, and
\* 1027, whose low byte alone reads as 3
LoadVersions == {0, 3, 4, 5, 6, 1027}

\* some bytes of tile payload behind the dictionary
LoadPayload == <<40, 181, 47, 253>>

\* the fields in front of the offset table, as the loaders read them: magic, version,
\* resolution, height resolution, and for version 4 the tiling
header_bytes(magic, version) ==
    magic \o U16LE(version) \o U16LE(4) \o U16LE(1) \o (IF version = 3 THEN <<>> ELSE U16LE(1))

\* a whole container in the layout the loaders read: header, offset table,
\* dictionary length, dictionary, payload; the one tile is the first payload byte
container_bytes(magic, version, dict) ==
    LET header == header_bytes(magic, version)
        data_offset == Len(header) + TileMapLen * 8 + 8 + Len(dict)
    IN  header \o TableBytes([c \in TileCells |-> IF c = 0 THEN data_offset ELSE 0])
               \o U64LE(Len(dict)) \o dict \o LoadPayload

\* which part of the container its first n bytes end in
region_of(version, dict, n) ==
    LET header == IF version = 3 THEN VER3_TILE_MAP_OFFSET ELSE VER4_TILE_MAP_OFFSET
        table == header + TileMapLen * 8
    IN  IF n < 5 THEN "magic"
        ELSE IF n < 7 THEN "version"
        ELSE IF n < header THEN "metadata"
        ELSE IF n < table THEN "table"
        ELSE IF n < table + 8 THEN "dict_size"
        ELSE IF n < table + 8 + Len(dict) THEN "dictionary"
        ELSE IF n < table + 8 + Len(dict) + Len(LoadPayload) THEN "payload"
        ELSE "whole"

LoadInit ==
    /\ fpc = "load_in"
    /\ \E magic \in LoadMagics, version \in LoadVersions, dict \in Dictionaries :
          \E n \in 0 .. Len(container_bytes(magic, version, dict)) :
              fin = [file |-> SubSeq(container_bytes(magic, version, dict), 1, n),
                     magic |-> magic, version |-> version,
                     region |-> region_of(version, dict, n)]
    /\ fout = NoPure
    /\ AtlasIdle
    /\ BuilderIdle

LoadCall ==
    /\ fpc = "load_in"
    /\ fout' = [err |-> load(fin.file).err]
    /\ fpc' = "load_out"
    /\ UNCHANGED fin
    /\ UNCHANGED atlasVars
    /\ UNCHANGED builderVars

LoadNext == LoadCall

SpecLoad == LoadInit /\ [][LoadNext]_vars

(***************************************************************************)
(* The hillshade container: HillshadeBuilder (builder.rs 200-330) and      *)
(* Hillshade::load (dataset/mod.rs 251-300). The builder object is held in *)
(* fin, the result of the load in fout.                                    *)
(***************************************************************************)
HILLSHADE_TILE_MAP_OFFSET == 11
HILLSHADE_DICT_OFFSET == HILLSHADE_TILE_MAP_OFFSET + TileMapLen * 8

\* HILLSHADE_FORMAT_VERSION is declared outside this source tree: the loader is
\* run with a value equal to FORMAT_VERSION and with one that differs from it
HillshadeFormatVersions == {1, FORMAT_VERSION}

HillshadeResolutions == {2, 4}
HillshadeTilings == {1, 2}
MaxHillshadeAdds == 2

\* a tile of 8-bit samples handed to add_tile
HillshadeData(res, base) == [i \in 1 .. (res * res) |-> (base + 7 * i) % 256]
HillshadeBases == {0, 200}

\* HillshadeBuilder::write_to_file
hillshade_write_to_file(metadata, tm, data) ==
    LET header == MAGIC \o U16LE(metadata.version) \o U16LE(metadata.resolution)
                        \o U16LE(metadata.tiling)
    IN  header \o U64LE(0) \o TableBytes(tm) \o data

\* HillshadeBuilder::add_tile, the "Tile" zone: samples regrouped tile by tile
hillshade_tile_order(metadata, data) ==
    LET tiling == metadata.tiling
        tile_size == tiling * tiling
        tiles_per_row == metadata.resolution \div tiling
    IN  [p \in 1 .. Len(data) |->
            LET i == (p - 1) \div tile_size
                j == (p - 1) % tile_size
                x == (i % tiles_per_row) * tiling + (j % tiling)
                y == (i \div tiles_per_row) * tiling + (j \div tiling)
            IN  data[y * metadata.resolution + x + 1]]

\* Hillshade::load, run with format_version as HILLSHADE_FORMAT_VERSION
hillshade_load(f, format_version) ==
    IF Len(f) < 7 THEN [err |-> "InvalidFileSize"]
    ELSE IF SubSeq(f, 1, 5) # HILLSHADE_MAGIC THEN [err |-> "InvalidMagic"]
    ELSE IF ReadU16LE(f, 5) # format_version THEN [err |-> "UnsupportedFormatVersion"]
    ELSE IF Len(f) < HILLSHADE_DICT_OFFSET + 8 THEN [err |-> "InvalidFileSize"]
    ELSE LET dict_size == ReadU64LE(f, HILLSHADE_DICT_OFFSET)
             data_offset == HILLSHADE_DICT_OFFSET + dict_size + 8
         IN  IF Len(f) < data_offset THEN [err |-> "InvalidFileSize"]
             ELSE [err |-> "none",
                   metadata |-> [version |-> format_version,
                                 resolution |-> ReadU16LE(f, 7),
                                 tiling |-> ReadU16LE(f, 9)],
                   tile_map |-> [c \in TileCells |->
                                    ReadU64LE(f, HILLSHADE_TILE_MAP_OFFSET + 8 * c)],
                   data_offset |-> data_offset]

\* HillshadeBuilder::new: the asserts hold for the metadata chosen
HillshadeInit ==
    /\ fpc = "hillshade_building"
    /\ \E resolution \in HillshadeResolutions, tiling \in HillshadeTilings,
          format_version \in HillshadeFormatVersions :
          LET metadata == [version |-> FORMAT_VERSION, resolution |-> resolution,
                           tiling |-> tiling]
              tm == [c \in TileCells |-> 0]
          IN  /\ metadata.resolution % metadata.tiling = 0
              /\ fin = [metadata |-> metadata, tile_map |-> tm,
                        file |-> hillshade_write_to_file(metadata, tm, <<>>),
                        format_version |-> format_version, adds |-> 0]
    /\ fout = NoPure
    /\ AtlasIdle
    /\ BuilderIdle

\* HillshadeBuilder::add_tile
HillshadeAddTile ==
    /\ fpc = "hillshade_building"
    /\ fin.adds < MaxHillshadeAdds
    /\ \E lon \in CellLons, base \in HillshadeBases :
          LET data == hillshade_tile_order(fin.metadata,
                                           HillshadeData(fin.metadata.resolution, base))
              temp == Compress(<<>>, data)
              index == map_lat_lon_to_index(CellLat, lon)
              offset == SeekFrom_End(fin.file)
          IN  fin' = [fin EXCEPT !.file = WriteAt(fin.file, offset, temp),
                                 !.tile_map = tile_map_store(fin.tile_map, index, offset),
                                 !.adds = fin.adds + 1]
    /\ UNCHANGED <<fpc, fout>>
    /\ UNCHANGED atlasVars
    /\ UNCHANGED builderVars

\* HillshadeBuilder::flush
HillshadeFlush ==
    /\ fpc = "hillshade_building"
    /\ fin' = [fin EXCEPT !.file = WriteAt(fin.file, HILLSHADE_TILE_MAP_OFFSET,
                                           TableBytes(fin.tile_map))]
    /\ UNCHANGED <<fpc, fout>>
    /\ UNCHANGED atlasVars
    /\ UNCHANGED builderVars

\* HillshadeBuilder::finish: flush, and the builder is consumed
HillshadeFinish ==
    /\ fpc = "hillshade_building"
    /\ fin' = [fin EXCEPT !.file = WriteAt(fin.file, HILLSHADE_TILE_MAP_OFFSET,
                                           TableBytes(fin.tile_map))]
    /\ fpc' = "hillshade_finished"
    /\ UNCHANGED fout
    /\ UNCHANGED atlasVars
    /\ UNCHANGED builderVars

\* Hillshade::load on the finished file
HillshadeLoad ==
    /\ fpc = "hillshade_finished"
    /\ fout' = [err |-> hillshade_load(fin.file, fin.format_version).err]
    /\ fpc' = "hillshade_loaded"
    /\ UNCHANGED fin
    /\ UNCHANGED atlasVars
    /\ UNCHANGED builderVars

HillshadeNext == HillshadeAddTile \/ HillshadeFlush \/ HillshadeFinish \/ HillshadeLoad

SpecHillshade == HillshadeInit /\ [][HillshadeNext]_vars

(***************************************************************************)
(* The builder's calls, then the reader.                                   *)
(***************************************************************************)
\* DatasetBuilder::new
BuilderInit ==
    /\ PureIdle /\ AtlasIdle
    /\ \E version \in Versions, tiling \in Tilings, h \in BuilderHeightRes,
          dict \in Dictionaries :
          LET metadata == [version |-> version, resolution |-> BuilderResolution,
                           height_resolution |-> h, tiling |-> tiling]
              tm == [c \in TileCells |-> 0]
          IN  /\ bMetadata = metadata
              /\ bDictionary = dict
              /\ bTileMap = tm
              /\ bFile = write_to_file(metadata, tm, <<>>, dict)
              /\ bCursor = Len(write_to_file(metadata, tm, <<>>, dict))
    /\ bLock = 0
    /\ thr = [t \in Threads |-> NoCall]
    /\ writes = <<>>
    /\ supplied = [c \in TileCells |-> NoGrid]
    /\ lastFlush = NoFlush
    /\ adds = 0 /\ flushes = 0
    /\ phase = "building"
    /\ reader = NoReader /\ got = NoGrid /\ opened = NoGrid

\* add_tile, lines 107-147: tile order, quantisation and compression, outside the lock
AddTileCall(t) ==
    /\ phase \in OpenPhases /\ thr[t].pc = "idle" /\ adds < MaxAdds
    /\ \E lon \in CellLons, grid \in Grids :
          thr' = [thr EXCEPT ![t] =
                    [pc |-> "compressed", index |-> map_lat_lon_to_index(CellLat, lon),
                     temp |-> Compress(bDictionary, add_tile_encode(bMetadata, grid)),
                     offset |-> 0, grid |-> grid, wid |-> 0]]
    /\ adds' = adds + 1
    /\ UNCHANGED <<bMetadata, bDictionary, bFile, bCursor, bTileMap, bLock, writes,
                   supplied, lastFlush, flushes, phase, reader, got>>
    /\ UNCHANGED opened
    /\ UNCHANGED <<pureVars, atlasVars>>

\* DecoderDictionary::get_dict_id / EncoderDictionary::get_dict_id: the id field of a
\* formatted dictionary (magic number EC30A437, then the id), 0 for raw content
get_dict_id(dict) ==
    IF Len(dict) >= 8 /\ SubSeq(dict, 1, 4) = <<55, 164, 48, 236>>
    THEN dict[5] + 256 * dict[6] + 65536 * dict[7]
    ELSE 0

\* a formatted dictionary whose id is 7
FormattedDictionary == <<55, 164, 48, 236, 7, 0, 0, 0, 244, 1>>

\* the datasets handed to add_tile_from_dataset: one that agrees with the builder,
\* and one that differs from it for each of the five properties
SourceVariants ==
    {"same", "version", "resolution", "height_resolution", "tiling", "dictionary"}

SourceVariant(variant, metadata, dict) ==
    LET same == SourceDataset(metadata, dict)
    IN  CASE variant = "version" ->
               [same EXCEPT !.metadata.version = IF metadata.version = 4 THEN 3 ELSE 4]
          [] variant = "resolution" ->
               [same EXCEPT !.metadata.resolution = 2 * metadata.resolution]
          [] variant = "height_resolution" ->
               [same EXCEPT !.metadata.height_resolution = metadata.height_resolution + 1]
          [] variant = "tiling" ->
               [same EXCEPT !.metadata.tiling = IF metadata.tiling = 1 THEN 2 ELSE 1]
          [] variant = "dictionary" ->
               [same EXCEPT !.dictionary = FormattedDictionary]
          [] OTHER -> same

\* the asserts of add_tile_from_dataset, lines 73-91; the first compares the
\* builder's own version with FORMAT_VERSION, which new has asserted already
add_tile_from_dataset_asserts(metadata, dict, dataset) ==
    /\ metadata.version \in Versions
    /\ dataset.metadata.resolution = metadata.resolution
    /\ dataset.metadata.height_resolution = metadata.height_resolution
    /\ dataset.metadata.tiling = metadata.tiling
    /\ get_dict_id(dataset.dictionary) = get_dict_id(dict)

\* add_tile_from_dataset, lines 72-97, on the tile at lon of the dataset variant: a
\* failed assert panics, else the frame is sliced out of the source's payload
AddFromDataset(t, lon, variant) ==
    /\ phase \in OpenPhases /\ thr[t].pc = "idle" /\ adds < MaxAdds
    /\ LET dataset == SourceVariant(variant, bMetadata, bDictionary)
           index == map_lat_lon_to_index(CellLat, lon)
           data_offset == dataset.tile_map[index]
           data_size == get_tile_compressed_size(dataset, CellLat, lon)
           offset == data_offset - dataset.data_offset
       IN  IF ~add_tile_from_dataset_asserts(bMetadata, bDictionary, dataset)
           THEN thr' = [thr EXCEPT ![t] = [NoCall EXCEPT !.pc = "panicked"]]
           ELSE /\ offset >= 0
                /\ thr' = [thr EXCEPT ![t] =
                            [pc |-> "compressed", index |-> index,
                             temp |-> SubSeq(dataset.data, offset + 1, offset + data_size),
                             offset |-> 0, grid |-> SourceGrid, wid |-> 0]]
    /\ adds' = adds + 1
    /\ UNCHANGED <<bMetadata, bDictionary, bFile, bCursor, bTileMap, bLock, writes,
                   supplied, lastFlush, flushes, phase, reader, got>>
    /\ UNCHANGED opened
    /\ UNCHANGED <<pureVars, atlasVars>>

AddFromDatasetCall(t) ==
    \E lon \in CellLons, variant \in SourceVariants : AddFromDataset(t, lon, variant)

\* self.locked.write()
Acquire(t) ==
    /\ thr[t].pc = "compressed"
    /\ RwLock_write(bLock)
    /\ bLock' = t
    /\ thr' = [thr EXCEPT ![t].pc = "locked"]
    /\ UNCHANGED <<bMetadata, bDictionary, bFile, bCursor, bTileMap, writes, supplied,
                   lastFlush, adds, flushes, phase, reader, got>>
    /\ UNCHANGED opened
    /\ UNCHANGED <<pureVars, atlasVars>>

\* let offset = locked.file.seek(SeekFrom::End(0))
Seek(t) ==
    /\ thr[t].pc = "locked"
    /\ bCursor' = SeekFrom_End(bFile)
    /\ thr' = [thr EXCEPT ![t].pc = "seeked", ![t].offset = SeekFrom_End(bFile)]
    /\ UNCHANGED <<bMetadata, bDictionary, bFile, bTileMap, bLock, writes, supplied,
                   lastFlush, adds, flushes, phase, reader, got>>
    /\ UNCHANGED opened
    /\ UNCHANGED <<pureVars, atlasVars>>

\* locked.file.write_all(&temp)
Write(t) ==
    /\ thr[t].pc = "seeked"
    /\ bFile' = WriteAt(bFile, bCursor, thr[t].temp)
    /\ bCursor' = bCursor + Len(thr[t].temp)
    /\ writes' = Append(writes, [start |-> bCursor, offset |-> thr[t].offset,
                                 bytes |-> thr[t].temp, index |-> thr[t].index])
    /\ thr' = [thr EXCEPT ![t].pc = "written", ![t].wid = Len(writes) + 1]
    /\ UNCHANGED <<bMetadata, bDictionary, bTileMap, bLock, supplied, lastFlush, adds,
                   flushes, phase, reader, got>>
    /\ UNCHANGED opened
    /\ UNCHANGED <<pureVars, atlasVars>>

\* locked.tile_map[index] = offset; the guard is dropped on return
Record(t) ==
    /\ thr[t].pc = "written"
    /\ bTileMap' = tile_map_store(bTileMap, thr[t].index, thr[t].offset)
    /\ supplied' = [supplied EXCEPT ![thr[t].index] =
                      [grid |-> thr[t].grid, wid |-> thr[t].wid]]
    /\ bLock' = 0
    /\ thr' = [thr EXCEPT ![t] = NoCall]
    /\ UNCHANGED <<bMetadata, bDictionary, bFile, bCursor, writes, lastFlush, adds,
                   flushes, phase, reader, got>>
    /\ UNCHANGED opened
    /\ UNCHANGED <<pureVars, atlasVars>>

\* flush (and finish): self.locked.write()
FlushCall(t) ==
    /\ phase \in OpenPhases /\ thr[t].pc = "idle" /\ flushes < MaxFlushes
    /\ RwLock_write(bLock)
    /\ bLock' = t
    /\ flushes' = flushes + 1
    /\ thr' = [thr EXCEPT ![t].pc = "f_locked"]
    /\ UNCHANGED <<bMetadata, bDictionary, bFile, bCursor, bTileMap, writes, supplied,
                   lastFlush, adds, phase, reader, got>>
    /\ UNCHANGED opened
    /\ UNCHANGED <<pureVars, atlasVars>>

\* locked.file.seek(SeekFrom::Start(match self.metadata.version ...))
FlushSeek(t) ==
    /\ thr[t].pc = "f_locked"
    /\ bCursor' = flush_offset(bMetadata.version)
    /\ thr' = [thr EXCEPT ![t].pc = "f_seeked"]
    /\ UNCHANGED <<bMetadata, bDictionary, bFile, bTileMap, bLock, writes, supplied,
                   lastFlush, adds, flushes, phase, reader, got>>
    /\ UNCHANGED opened
    /\ UNCHANGED <<pureVars, atlasVars>>

\* locked.file.write_all(slice)
FlushWrite(t) ==
    /\ thr[t].pc = "f_seeked"
    /\ bFile' = WriteAt(bFile, bCursor, TableBytes(bTileMap))
    /\ bCursor' = bCursor + TileMapLen * 8
    /\ lastFlush' = [done |-> FALSE, table |-> bTileMap, nwrites |-> Len(writes)]
    /\ thr' = [thr EXCEPT ![t].pc = "f_written"]
    /\ UNCHANGED <<bMetadata, bDictionary, bTileMap, bLock, writes, supplied, adds,
                   flushes, phase, reader, got>>
    /\ UNCHANGED opened
    /\ UNCHANGED <<pureVars, atlasVars>>

\* locked.file.flush(); Ok(()): the guard is dropped
FlushReturn(t) ==
    /\ thr[t].pc = "f_written"
    /\ lastFlush' = [lastFlush EXCEPT !.done = TRUE]
    /\ bLock' = 0
    /\ thr' = [thr EXCEPT ![t] = NoCall]
    /\ UNCHANGED <<bMetadata, bDictionary, bFile, bCursor, bTileMap, writes, supplied,
                   adds, flushes, phase, reader, got>>
    /\ UNCHANGED opened
    /\ UNCHANGED <<pureVars, atlasVars>>

\* the builder is dropped and the file reopened: Dataset::load
Reopen ==
    /\ phase \in OpenPhases
    /\ \A t \in Threads : thr[t].pc = "idle"
    /\ phase' = IF phase = "building" THEN "reading" ELSE "rereading"
    /\ reader' = load(bFile)
    /\ UNCHANGED <<bMetadata, bDictionary, bFile, bCursor, bTileMap, bLock, thr, writes,
                   supplied, lastFlush, adds, flushes, got>>
    /\ UNCHANGED opened
    /\ UNCHANGED <<pureVars, atlasVars>>

\* Dataset::get_tile on the reopened container
GetTile ==
    /\ phase \in ReadPhases /\ reader.err = "none"
    /\ \E lon \in CellLons :
          got' = [index |-> map_lat_lon_to_index(CellLat, lon),
                  exists |-> tile_exists(reader, CellLat, lon),
                  tile |-> get_tile(reader, CellLat, lon)]
    /\ UNCHANGED <<bMetadata, bDictionary, bFile, bCursor, bTileMap, bLock, thr, writes,
                   supplied, lastFlush, adds, flushes, phase, reader>>
    /\ UNCHANGED opened
    /\ UNCHANGED <<pureVars, atlasVars>>

\* DatasetBuilder::from_dataset on the reopened container: metadata and table are the
\* dataset's, the dictionary is the argument, the file is opened for reading and
\* writing as it is
FromDataset ==
    /\ phase = "reading" /\ opened = NoGrid /\ reader.err = "none"
    /\ \E dictionary \in Dictionaries : bDictionary' = dictionary
    /\ bMetadata' = reader.metadata
    /\ bTileMap' = reader.tile_map
    /\ bCursor' = 0
    /\ phase' = "appending"
    /\ opened' = [tile_map |-> reader.tile_map, len |-> Len(bFile),
                  dictionary |-> reader.dictionary]
    /\ supplied' = [c \in TileCells |->
                      IF /\ supplied[c] # NoGrid
                         /\ writes[supplied[c].wid].start = reader.tile_map[c]
                      THEN supplied[c] ELSE NoGrid]
    /\ reader' = NoReader /\ got' = NoGrid
    /\ UNCHANGED <<bFile, bLock, thr, writes, lastFlush, adds, flushes>>
    /\ UNCHANGED <<pureVars, atlasVars>>

\* make_builder of geoc (common.rs 28-38) with a metadata that is not the loaded
\* one, or on a file that does not load: DatasetBuilder::new on the same path
MakeBuilderNew ==
    /\ phase = "reading" /\ opened = NoGrid
    /\ \E version \in Versions, tiling \in Tilings, h \in BuilderHeightRes,
          dict \in Dictionaries :
          LET metadata == [version |-> version, resolution |-> BuilderResolution,
                           height_resolution |-> h, tiling |-> tiling]
              tm == [c \in TileCells |-> 0]
          IN  /\ reader.err # "none" \/ metadata # reader.metadata
              /\ bMetadata' = metadata
              /\ bDictionary' = dict
              /\ bTileMap' = tm
              /\ bFile' = write_to_file(metadata, tm, <<>>, dict)
              /\ bCursor' = Len(write_to_file(metadata, tm, <<>>, dict))
              /\ opened' = [tile_map |-> tm,
                            len |-> Len(write_to_file(metadata, tm, <<>>, dict)),
                            dictionary |-> dict]
    /\ writes' = <<>>
    /\ supplied' = [c \in TileCells |-> NoGrid]
    /\ lastFlush' = NoFlush
    /\ UNCHANGED <<adds, flushes>>
    /\ phase' = "building"
    /\ reader' = NoReader /\ got' = NoGrid
    /\ UNCHANGED <<bLock, thr>>
    /\ UNCHANGED <<pureVars, atlasVars>>

BuilderNext ==
    \/ \E t \in Threads :
          \/ AddTileCall(t) \/ AddFromDatasetCall(t) \/ Acquire(t) \/ Seek(t)
          \/ Write(t) \/ Record(t)
          \/ FlushCall(t) \/ FlushSeek(t) \/ FlushWrite(t) \/ FlushReturn(t)
    \/ Reopen
    \/ GetTile

SpecBuilder == BuilderInit /\ [][BuilderNext]_vars

(***************************************************************************)
(* Continuing a container: a file left by an earlier run of the builder is *)
(* loaded, a builder is made from it (from_dataset, or new on the same     *)
(* path) once at the start of the run, tiles are added by one thread, the  *)
(* file is flushed and loaded again.                                       *)
(***************************************************************************)
\* the builder after new and one add_tile(grids[c]) for every cell c of cells below k
RECURSIVE AddedUpTo(_, _, _, _, _)
AddedUpTo(metadata, dict, cells, grids, k) ==
    IF k = 0
    THEN [file |-> write_to_file(metadata, [c \in TileCells |-> 0], <<>>, dict),
          tile_map |-> [c \in TileCells |-> 0],
          writes |-> <<>>,
          supplied |-> [c \in TileCells |-> NoGrid]]
    ELSE LET b == AddedUpTo(metadata, dict, cells, grids, k - 1)
             c == k - 1
             temp == Compress(dict, add_tile_encode(metadata, grids[c]))
             offset == SeekFrom_End(b.file)
         IN  IF c \notin cells THEN b
             ELSE [file |-> WriteAt(b.file, offset, temp),
                   tile_map |-> tile_map_store(b.tile_map, c, offset),
                   writes |-> Append(b.writes, [start |-> offset, offset |-> offset,
                                                bytes |-> temp, index |-> c]),
                   supplied |-> [b.supplied EXCEPT ![c] =
                                   [grid |-> grids[c], wid |-> Len(b.writes) + 1]]]

\* the file after flush
Flushed(metadata, b) ==
    WriteAt(b.file, flush_offset(metadata.version), TableBytes(b.tile_map))

AppendInit ==
    /\ PureIdle /\ AtlasIdle
    /\ \E version \in Versions, tiling \in Tilings, h \in BuilderHeightRes,
          dict \in Dictionaries, cells \in SUBSET TileCells,
          finished \in BOOLEAN :
          LET metadata == [version |-> version, resolution |-> BuilderResolution,
                           height_resolution |-> h, tiling |-> tiling]
              grids == [c \in TileCells |-> GridOf(-500 + 5 * c, 5)]
              b == AddedUpTo(metadata, dict, cells, grids, TileMapLen)
              file == IF finished THEN Flushed(metadata, b) ELSE b.file
          IN  /\ bMetadata = metadata
              /\ bDictionary = dict
              /\ bTileMap = b.tile_map
              /\ bFile = file
              /\ bCursor = Len(file)
              /\ writes = b.writes
              /\ supplied = b.supplied
              /\ lastFlush = IF finished
                             THEN [done |-> TRUE, table |-> b.tile_map,
                                   nwrites |-> Len(b.writes)]
                             ELSE NoFlush
              /\ reader = load(file)
    /\ bLock = 0
    /\ thr = [t \in Threads |-> NoCall]
    /\ adds = 0 /\ flushes = 0
    /\ phase = "reading"
    /\ got = NoGrid /\ opened = NoGrid

AppendNext ==
    \/ FromDataset
    \/ MakeBuilderNew
    \/ AddTileCall(1) \/ AddFromDatasetCall(1) \/ Acquire(1) \/ Seek(1)
    \/ Write(1) \/ Record(1)
    \/ FlushCall(1) \/ FlushSeek(1) \/ FlushWrite(1) \/ FlushReturn(1)
    \/ Reopen

SpecAppend == AppendInit /\ [][AppendNext]_vars

(***************************************************************************)
(* The in-memory builder and its reader of geo/src/lib.rs, and the         *)
(* parallel driver of geoc (common.rs, for_tile_in_output) that fills it:  *)
(* the indices are handed to Workers, each item checks the two flags, then *)
(* tile_exists, then runs exec, which fails or calls add_tile. The whole   *)
(* run is held in fin, the output file and what is read back in fout.      *)
(***************************************************************************)
TILE_MAP_START_OFFSET == 11
DICT_START_OFFSET == TILE_MAP_START_OFFSET + TileMapLen * 8

Workers == {1, 2}
DriverResolution == 2
DriverBases == {0, 300}

\* a tile of heights handed to add_tile by exec
DriverData(res, base) == [i \in 1 .. (res * res) |-> base + i]

\* lib.rs add_tile, lines 229-236: the heights quantised, as little-endian bytes
lib_quantise(metadata, data) ==
    [p \in 1 .. (2 * Len(data)) |->
        U16LE(Quantise(data[(p + 1) \div 2], metadata.height_resolution))[((p - 1) % 2) + 1]]

\* lib.rs add_tile, line 251: `data` is the vector of quantised bytes made at 229
lib_offset(locked, data) == Len(data)

\* lib.rs add_tile, line 252: the table entry is stored
lib_store(locked, index, data) ==
    [locked EXCEPT !.tile_map = tile_map_store(locked.tile_map, index,
                                               lib_offset(locked, data))]

\* lib.rs add_tile, line 253: the frame is appended to the data
lib_extend(locked, temp) == [locked EXCEPT !.data = locked.data \o temp]

\* lib.rs add_tile, lines 250-253, the section under the write lock
lib_add_tile(locked, index, data, temp) ==
    lib_extend(lib_store(locked, index, data), temp)

\* lib.rs DatasetBuilder::finish: header, table, dictionary length, dictionary, data
lib_finish(metadata, dictionary, locked) ==
    MAGIC \o U16LE(metadata.version) \o U16LE(metadata.resolution)
          \o U16LE(metadata.height_resolution)
          \o TableBytes(locked.tile_map) \o U64LE(Len(dictionary)) \o dictionary
          \o locked.data

\* lib.rs Dataset::load
lib_load(f) ==
    IF Len(f) < 7 THEN [err |-> "InvalidFileSize"]
    ELSE IF SubSeq(f, 1, 5) # MAGIC THEN [err |-> "InvalidMagic"]
    ELSE IF ReadU16LE(f, 5) # FORMAT_VERSION THEN [err |-> "UnsupportedFormatVersion"]
    ELSE IF Len(f) < DICT_START_OFFSET + 8 THEN [err |-> "InvalidFileSize"]
    ELSE LET dict_size == ReadU64LE(f, DICT_START_OFFSET)
             offset == DICT_START_OFFSET + dict_size + 8
         IN  IF Len(f) < offset THEN [err |-> "InvalidFileSize"]
             ELSE [err |-> "none",
                   metadata |-> [version |-> ReadU16LE(f, 5),
                                 resolution |-> ReadU16LE(f, 7),
                                 height_resolution |-> ReadU16LE(f, 9)],
                   tile_map |-> [c \in TileCells |->
                                    ReadU64LE(f, TILE_MAP_START_OFFSET + 8 * c)],
                   dictionary |-> SubSeq(f, DICT_START_OFFSET + 9, offset),
                   data |-> SubSeq(f, offset + 1, Len(f))]

\* lib.rs Dataset::get_tile: "panic" is the slice past the end of the map or a failed
\* expect of the decoder
lib_get_tile(this, c) ==
    LET offset == this.tile_map[c]
        res == this.metadata.resolution
    IN  IF offset = 0 THEN [kind |-> "none", heights |-> <<>>]
        ELSE IF offset > Len(this.data) THEN [kind |-> "panic", heights |-> <<>>]
        ELSE LET rest == SubSeq(this.data, offset + 1, Len(this.data))
                 dec == Decompress(this.dictionary, rest)
             IN  IF ~dec.ok \/ Len(dec.bytes) < res * res * 2
                 THEN [kind |-> "panic", heights |-> <<>>]
                 ELSE [kind |-> "ok",
                       heights |-> [q \in 1 .. (res * res) |->
                                      Unquantise(ReadU16LE(dec.bytes, 2 * (q - 1)),
                                                 this.metadata.height_resolution)]]

\* lib.rs DatasetBuilder::from_dataset
lib_from_dataset(dataset) == [tile_map |-> dataset.tile_map, data |-> dataset.data]

\* common.rs 48-50: an item returns at once when either flag is set
should_skip(had_error, was_quit) == had_error \/ was_quit

DriverMetadata ==
    [version |-> FORMAT_VERSION, resolution |-> DriverResolution, height_resolution |-> 1]

\* the file an earlier run left: nothing, or a dataset that holds cell 0
DriverEarlierFile(base) ==
    LET data == DriverData(DriverResolution, base)
        bytes == lib_quantise(DriverMetadata, data)
    IN  lib_finish(DriverMetadata, <<>>,
                   lib_add_tile([tile_map |-> [c \in TileCells |-> 0], data |-> <<>>],
                                0, bytes, Compress(<<>>, bytes)))

IdleWorker == [pc |-> "idle", index |-> -1, data |-> <<>>, temp |-> <<>>]

\* make_builder (common.rs 28-38), then the start of the parallel loop
DriverInit ==
    /\ fpc = "driver_running"
    /\ \E continuing \in BOOLEAN :
          LET file == IF continuing THEN DriverEarlierFile(0) ELSE <<>>
              loaded == lib_load(file)
              from == loaded.err = "none" /\ loaded.metadata = DriverMetadata
          IN  /\ fin = [metadata |-> DriverMetadata,
                        dictionary |-> <<>>,
                        locked |-> IF from THEN lib_from_dataset(loaded)
                                   ELSE [tile_map |-> [c \in TileCells |-> 0],
                                         data |-> <<>>],
                        lock |-> 0,
                        was_quit |-> FALSE,
                        had_error |-> FALSE,
                        todo |-> TileCells,
                        w |-> [t \in Workers |-> IdleWorker],
                        \* history: where each frame was put, the grid given for
                        \* it and the frame itself, the cells this run's add_tile
                        \* calls were for, the items that returned at the
                        \* flags, the items begun after was_quit was set, the tiles
                        \* added and the add_tile calls in progress when it was set
                        starts |-> [c \in TileCells |-> IF from /\ c = 0 THEN 0 ELSE -1],
                        given |-> [c \in TileCells |->
                                     IF from /\ c = 0 THEN DriverData(DriverResolution, 0)
                                     ELSE <<>>],
                        frames |-> [c \in TileCells |->
                                      IF from /\ c = 0
                                      THEN Compress(<<>>,
                                             lib_quantise(DriverMetadata,
                                                          DriverData(DriverResolution, 0)))
                                      ELSE <<>>],
                        added |-> {},
                        skipped |-> {},
                        late |-> {},
                        before |-> {},
                        inflight |-> {}]
              /\ fout = [file |-> file, finished |-> FALSE, dataset |-> NoPure,
                         got |-> [c \in TileCells |-> "unread"]]
    /\ AtlasIdle
    /\ BuilderIdle

DriverStep(f) ==
    /\ fpc = "driver_running"
    /\ fin' = f
    /\ UNCHANGED <<fpc, fout>>
    /\ UNCHANGED atlasVars
    /\ UNCHANGED builderVars

\* common.rs 47-50: a worker is handed an index and reads the two flags
DriverTake(t) ==
    /\ fin.w[t].pc = "idle"
    /\ \E index \in fin.todo :
          IF should_skip(fin.had_error, fin.was_quit)
          THEN DriverStep([fin EXCEPT !.todo = fin.todo \ {index},
                                      !.skipped = fin.skipped \cup {index}])
          ELSE DriverStep([fin EXCEPT !.todo = fin.todo \ {index},
                                      !.w[t].pc = "exists",
                                      !.w[t].index = index,
                                      !.late = IF fin.was_quit THEN fin.late \cup {index}
                                               ELSE fin.late])

\* common.rs 53: builder.tile_exists, under the read lock
DriverTileExists(t) ==
    /\ fin.w[t].pc = "exists"
    /\ fin.lock = 0
    /\ IF fin.locked.tile_map[fin.w[t].index] # 0
       THEN DriverStep([fin EXCEPT !.w[t] = IdleWorker])
       ELSE DriverStep([fin EXCEPT !.w[t].pc = "exec"])

\* common.rs 54-60: exec fails, and the error flag is set
DriverExecErr(t) ==
    /\ fin.w[t].pc = "exec"
    /\ DriverStep([fin EXCEPT !.w[t] = IdleWorker, !.had_error = TRUE])

\* exec calls add_tile: lib.rs 229-247, the bytes and the frame made outside the lock
DriverExecAdd(t) ==
    /\ fin.w[t].pc = "exec"
    /\ \E base \in DriverBases :
          LET data == DriverData(fin.metadata.resolution, base)
              bytes == lib_quantise(fin.metadata, data)
          IN  DriverStep([fin EXCEPT !.w[t].pc = "add",
                                     !.w[t].data = bytes,
                                     !.w[t].temp = Compress(fin.dictionary, bytes),
                                     !.given[fin.w[t].index] = data])

\* lib.rs 250: the write lock is taken
DriverLock(t) ==
    /\ fin.w[t].pc = "add"
    /\ fin.lock = 0
    /\ DriverStep([fin EXCEPT !.lock = t, !.w[t].pc = "locked"])

\* lib.rs 251-252: the table entry
DriverStore(t) ==
    /\ fin.w[t].pc = "locked"
    /\ DriverStep([fin EXCEPT !.locked = lib_store(fin.locked, fin.w[t].index,
                                                   fin.w[t].data),
                              !.w[t].pc = "stored"])

\* lib.rs 253-254: the frame, and the lock is dropped
DriverExtend(t) ==
    /\ fin.w[t].pc = "stored"
    /\ DriverStep([fin EXCEPT !.locked = lib_extend(fin.locked, fin.w[t].temp),
                              !.starts[fin.w[t].index] = Len(fin.locked.data),
                              !.frames[fin.w[t].index] = fin.w[t].temp,
                              !.added = fin.added \cup {fin.w[t].index},
                              !.lock = 0,
                              !.w[t] = IdleWorker])

\* the ctrlc handler, first signal (common.rs 24-25)
DriverCancel ==
    /\ ~fin.was_quit
    /\ DriverStep([fin EXCEPT !.was_quit = TRUE,
                              !.before = {c \in TileCells : fin.locked.tile_map[c] # 0},
                              !.inflight = {fin.w[t].index :
                                              t \in {u \in Workers :
                                                       fin.w[u].pc \in {"add", "locked",
                                                                       "stored"}}}])

\* the ctrlc handler, second signal (common.rs 20-22): the process exits
DriverExit ==
    /\ fpc = "driver_running"
    /\ fin.was_quit
    /\ fpc' = "driver_exited"
    /\ UNCHANGED <<fin, fout>>
    /\ UNCHANGED atlasVars
    /\ UNCHANGED builderVars

\* common.rs 65-71: the loop is over; finish unless a tile failed
DriverFinish ==
    /\ fpc = "driver_running"
    /\ fin.todo = {}
    /\ \A t \in Workers : fin.w[t].pc = "idle"
    /\ fpc' = "driver_returned"
    /\ fout' = IF ~fin.had_error
               THEN [fout EXCEPT !.file = lib_finish(fin.metadata, fin.dictionary,
                                                     fin.locked),
                                 !.finished = TRUE]
               ELSE fout
    /\ UNCHANGED fin
    /\ UNCHANGED atlasVars
    /\ UNCHANGED builderVars

\* Dataset::load on the file finish wrote
DriverLoad ==
    /\ fpc = "driver_returned"
    /\ fout.finished
    /\ lib_load(fout.file).err = "none"
    /\ fout' = [fout EXCEPT !.dataset = lib_load(fout.file)]
    /\ fpc' = "driver_loaded"
    /\ UNCHANGED fin
    /\ UNCHANGED atlasVars
    /\ UNCHANGED builderVars

\* Dataset::get_tile on the loaded file; a panic ends the reader
DriverGetTile ==
    /\ fpc = "driver_loaded"
    /\ \E c \in TileCells :
          /\ fout.got[c] = "unread"
          /\ LET r == lib_get_tile(fout.dataset, c)
             IN  /\ fout' = [fout EXCEPT !.got[c] =
                                IF r.kind = "ok" /\ r.heights = fin.given[c] THEN "own"
                                ELSE IF r.kind = "ok" THEN "other"
                                ELSE r.kind]
                 /\ fpc' = IF r.kind = "panic" THEN "driver_read_panicked" ELSE fpc
    /\ UNCHANGED fin
    /\ UNCHANGED atlasVars
    /\ UNCHANGED builderVars

DriverNext ==
    \/ \E t \in Workers : DriverTake(t)
    \/ \E t \in Workers : DriverTileExists(t)
    \/ \E t \in Workers : DriverExecErr(t)
    \/ \E t \in Workers : DriverExecAdd(t)
    \/ \E t \in Workers : DriverLock(t)
    \/ \E t \in Workers : DriverStore(t)
    \/ \E t \in Workers : DriverExtend(t)
    \/ DriverCancel
    \/ DriverExit
    \/ DriverFinish
    \/ DriverLoad
    \/ DriverGetTile

SpecDriver == DriverInit /\ [][DriverNext]_vars



(***************************************************************************)
(* Claims about the builder and the reader.                                *)
(***************************************************************************)
FileBytes(f, pos, len) == SubSeq(f, pos + 1, pos + len)
FlushPcs == {"f_locked", "f_seeked", "f_written"}
Building == phase = "building" \/ phase = "reading"

(***************************************************************************)
(* C1: under every interleaving of add_tile and add_tile_from_dataset      *)
(* calls, the offset a call got from its seek is the position at which its *)
(* bytes were written, the bytes of every call are in the file unbroken,   *)
(* no two calls' byte ranges overlap, and the offset recorded for a cell   *)
(* is the start of the bytes of the call that recorded it.                 *)
(***************************************************************************)
C1_AtomicAppend ==
    Building =>
      /\ \A k \in 1 .. Len(writes) :
            /\ writes[k].start = writes[k].offset
            /\ FileBytes(bFile, writes[k].start, Len(writes[k].bytes)) = writes[k].bytes
            /\ \A j \in 1 .. (k - 1) :
                  \/ writes[j].start + Len(writes[j].bytes) <= writes[k].start
                  \/ writes[k].start + Len(writes[k].bytes) <= writes[j].start
      /\ \A c \in TileCells :
            bTileMap[c] # 0 =>
               /\ supplied[c] # NoGrid
               /\ writes[supplied[c].wid].index = c
               /\ writes[supplied[c].wid].start = bTileMap[c]

\* one thread has written inside the critical section while the other, its frame
\* for the same cell ready, waits for the lock
C1_Witness ==
    /\ phase = "building"
    /\ \E t1, t2 \in Threads :
          /\ t1 # t2
          /\ thr[t1].pc = "written" /\ thr[t1].wid = Len(writes)
          /\ thr[t2].pc = "compressed" /\ thr[t2].index = thr[t1].index

(***************************************************************************)
(* C2: whenever a flush has completed and no later flush has started, the  *)
(* offset table a reader finds in the file is the table that flush wrote,  *)
(* each of its non-zero entries is the start of the unbroken frame of a    *)
(* call made before the flush, and no entry refers to a frame appended     *)
(* since.                                                                  *)
(***************************************************************************)
C2_CrashSafe ==
    (Building /\ lastFlush.done /\ \A t \in Threads : thr[t].pc \notin FlushPcs) =>
      /\ load(bFile).err = "none"
      /\ load(bFile).tile_map = lastFlush.table
      /\ \A c \in TileCells :
            lastFlush.table[c] # 0 =>
               \E k \in 1 .. lastFlush.nwrites :
                  /\ writes[k].start = lastFlush.table[c]
                  /\ FileBytes(bFile, writes[k].start, Len(writes[k].bytes)) = writes[k].bytes
      /\ \A k \in (lastFlush.nwrites + 1) .. Len(writes) :
            \A c \in TileCells : lastFlush.table[c] # writes[k].start

\* a flush that recorded a tile has completed and a tile has been appended since
C2_Witness ==
    /\ phase = "building" /\ lastFlush.done
    /\ \A t \in Threads : thr[t].pc \notin FlushPcs
    /\ \E c \in TileCells : lastFlush.table[c] # 0
    /\ Len(writes) > lastFlush.nwrites

\* every height of the grid is a multiple of the height resolution above -500
Representable(grid, h) ==
    \A i \in DOMAIN grid : Unquantise(Quantise(grid[i], h), h) = grid[i]

\* the container was flushed after its last add_tile and then reopened
FlushedAndReopened ==
    /\ phase = "reading"
    /\ lastFlush.done
    /\ lastFlush.table = bTileMap

(***************************************************************************)
(* C3: after building, flushing and reopening a container whose heights    *)
(* are representable and whose tiling the reader knows, get_tile returns   *)
(* for each added cell the grid given to the builder, and for every other  *)
(* cell tile_exists is false and get_tile returns None.                    *)
(***************************************************************************)
C3_RoundTrip ==
    (/\ FlushedAndReopened
     /\ bMetadata.version = 4 \/ bMetadata.tiling = 1
     /\ \A c \in TileCells :
           supplied[c] # NoGrid =>
              Representable(supplied[c].grid, bMetadata.height_resolution))
      => /\ reader.err = "none"
         /\ \A lon \in CellLons :
               LET c == map_lat_lon_to_index(CellLat, lon)
               IN  IF supplied[c] = NoGrid
                   THEN /\ ~tile_exists(reader, CellLat, lon)
                        /\ get_tile(reader, CellLat, lon).kind = "None"
                   ELSE get_tile(reader, CellLat, lon)
                           = [kind |-> "Ok", grid |-> supplied[c].grid]

\* the round trip of C3 for containers built with an empty dictionary
C3_RoundTripEmptyDictionary == bDictionary = <<>> => C3_RoundTrip

\* where DatasetBuilder::new put the offset table: after the header, the
\* dictionary length and the dictionary
NewTableOffset ==
    Len(write_to_file(bMetadata, bTileMap, <<>>, bDictionary)) - TileMapLen * 8

(***************************************************************************)
(* C4: the write of flush starts at the position where new wrote the       *)
(* offset table, and leaves every byte outside that table as it was.       *)
(***************************************************************************)
C4_FlushInPlace ==
    [][(\E t \in Threads : thr[t].pc = "f_seeked" /\ thr'[t].pc = "f_written")
         => /\ bCursor = NewTableOffset
            /\ Len(bFile') = Len(bFile)
            /\ \A i \in 1 .. Len(bFile) :
                  (i <= NewTableOffset \/ i > NewTableOffset + TileMapLen * 8)
                     => bFile'[i] = bFile[i]]_vars

(***************************************************************************)
(* C5: at the end of every populate_tiles frame no two cells of the        *)
(* residency table hold the same real atlas slot.                          *)
(***************************************************************************)
C5_NoSharedSlot ==
    status \in {"None", "Ok", "Resized", "AtlasFull"} =>
        \A c1 \in Cells, c2 \in Cells :
            (c1 # c2 /\ IsSlot(atlas, tiles[c1]) /\ IsSlot(atlas, tiles[c2]))
                => tiles[c1] # tiles[c2]

\* two cells resident at once in a later frame, after an eviction has put a slot on
\* the free list
C5_Witness ==
    /\ status = "Ok"
    /\ frame >= 2
    /\ \E c1 \in Cells, c2 \in Cells :
          /\ c1 # c2
          /\ IsSlot(atlas, tiles[c1]) /\ IsSlot(atlas, tiles[c2])
          /\ tiles[c1] # tiles[c2]
    /\ Len(atlas.collected_tiles) > 0

(***************************************************************************)
(* C6: after a frame in which populate_tiles returns Ok, every cell whose  *)
(* used flag is 1 and whose tile exists and decodes in the selected        *)
(* dataset holds a real atlas slot.                                        *)
(***************************************************************************)
C6_UsedCellsResident ==
    status = "Ok" =>
        \A c \in Cells :
            (used[c] = 1 /\ datasets[lods[range]].tiles[c] = "ok")
                => IsSlot(atlas, tiles[c])

(***************************************************************************)
(* C7: starting from an empty atlas of size W x H at tile resolution R,    *)
(* the K-th admission succeeds whenever K * R^2 <= W * H.                  *)
(***************************************************************************)
C7_AdmitWhileAreaFits ==
    (status = "upload" /\ upCount >= 1
        /\ upCount * atlas.curr_tile_res * atlas.curr_tile_res <= atlas.width * atlas.height)
        => upRet # None

(***************************************************************************)
(* C8: when two consecutive frames see the same used mask at the same      *)
(* range and neither grows the atlas (both return Ok), the second leaves   *)
(* the residency table as the first left it and uploads no tile.           *)
(***************************************************************************)
C8_SteadyState ==
    [][(/\ status = "Ok"
        /\ status' = "Ok"
        /\ frame' = frame + 1
        /\ used' = used
        /\ range' = range)
          => (tiles' = tiles /\ uploads' = 0)]_vars

(***************************************************************************)
(* C9: the cell index is a bijection between the (lat, lon) domain and     *)
(* [0, 64800), with map_index_to_lat_lon as its inverse, and it is the     *)
(* row-major formula (lat + 90) * 360 + (lon + 180).                       *)
(***************************************************************************)
C9_IndexBijection ==
    fpc = "index_out" =>
        IF fin.kind = "latlon"
        THEN /\ fout.back = <<fin.lat, fin.lon>>
             /\ fout.index = (fin.lat + 90) * 360 + (fin.lon + 180)
             /\ fout.index \in 0 .. 64799
        ELSE \* every index of [0, 64800) is the image of an in-range pair
             /\ fout.latlon[1] \in -90 .. 89
             /\ fout.latlon[2] \in -180 .. 179
             /\ fout.back = fin.index

\* the last cell, (89, 179), has been mapped to index 64799 and back
C9_Witness ==
    /\ fpc = "index_out"
    /\ fin.kind = "latlon"
    /\ fin.lat = 89 /\ fin.lon = 179
    /\ fout.index = 64799

(***************************************************************************)
(* C10 as amended: quantising and un-quantising a height h of              *)
(* [-500, 10000] overflows no 16-bit value and returns h exactly when      *)
(* h + 500 is a multiple of H (always, for H = 1); otherwise it returns    *)
(* the nearest multiple of H above -500, at most H / 2 away from h.        *)
(***************************************************************************)
Abs(x) == IF x < 0 THEN -x ELSE x

C10_NoOverflow ==
    /\ fin.height + 500 \in -32768 .. 32767
    /\ RoundDiv(fin.height + 500, fin.height_resolution) \in 0 .. 65535
    /\ fout.value * fin.height_resolution \in 0 .. 32767
    /\ fout.value * fin.height_resolution - 500 \in -32768 .. 32767

C10_QuantRoundTripAmended ==
    fpc = "quant_out" =>
        /\ C10_NoOverflow
        /\ fout.height6 = fout.height
        /\ (fin.height + 500) % fin.height_resolution = 0 => fout.height = fin.height
        /\ 2 * Abs(fout.height - fin.height) <= fin.height_resolution
        /\ (fout.height + 500) % fin.height_resolution = 0

\* a height between two multiples of H has gone through the round trip
C10_Witness ==
    /\ fpc = "quant_out"
    /\ fin.height_resolution = 5
    /\ fin.height = 12
    /\ fout.value = 102
    /\ fout.height = 10

\* C10 as stated: the round trip returns h exactly for every H of {1, 5, 50}.
C10_QuantRoundTripExact ==
    fpc = "quant_out" => fout.height = fin.height /\ fout.height6 = fin.height

(***************************************************************************)
(* C11: a water pixel quantises to the sentinel 0 for every height         *)
(* resolution; a pixel stored as water in any palette form comes out of    *)
(* un-palette as 0; a 0 comes out of un-predict as 0 whatever its          *)
(* neighbours are; and a 0 un-quantises to -500.                           *)
(***************************************************************************)
C11_WaterSurvives ==
    /\ fpc \in {"codec_unpaletted", "codec_unpredicted", "codec_out"} =>
          /\ Quantise(WaterHeight, fin.height_resolution) = 0
          /\ \A i \in CodecPixels : fin.residuals[i] = 0 => fout.unpaletted[i] = 0
    /\ fpc \in {"codec_unpredicted", "codec_out"} =>
          \A i \in CodecPixels : fout.unpaletted[i] = 0 => fout.unpredicted[i] = 0
    /\ fpc = "codec_out" =>
          \A i \in CodecPixels :
             fout.unpredicted[i] = 0 => fout.output[i] = WaterHeight

\* a grid with water next to land on every side of a land pixel has been decoded
\* from the one-byte raw form
C11_Witness ==
    /\ fpc = "codec_out"
    /\ fin.form = "raw1"
    /\ fin.residuals[5] # 0
    /\ \A i \in {2, 4, 6, 8} : fin.residuals[i] = 0
    /\ \A i \in {2, 4, 6, 8} : fout.output[i] = WaterHeight
    /\ fout.output[5] # WaterHeight

(***************************************************************************)
(* C12: whenever a flush has completed and none is under way, every        *)
(* non-zero entry of the offset table in the file is at least the offset   *)
(* at which the payload region begins: the table offset of the version,    *)
(* plus eight bytes per cell, plus the dictionary length field and the     *)
(* dictionary bytes. No entry points into the header, the table or the     *)
(* dictionary.                                                             *)
(***************************************************************************)
PayloadRegionStart ==
    flush_offset(bMetadata.version) + TileMapLen * 8 + 8 + Len(bDictionary)

C12_EntriesInPayload ==
    (Building /\ lastFlush.done /\ \A t \in Threads : thr[t].pc \notin FlushPcs) =>
      /\ load(bFile).err = "none"
      /\ \A c \in TileCells :
            /\ load(bFile).tile_map[c] # 0 => load(bFile).tile_map[c] >= PayloadRegionStart
            /\ lastFlush.table[c] # 0 => lastFlush.table[c] >= PayloadRegionStart

\* a flush of a container with a dictionary has completed with both cells filled
C12_Witness ==
    /\ phase = "building" /\ lastFlush.done
    /\ \A t \in Threads : thr[t].pc \notin FlushPcs
    /\ bDictionary # <<>>
    /\ \A c \in TileCells : load(bFile).tile_map[c] # 0

(***************************************************************************)
(* C13: when add_tile records a frame for a cell whose entry is already    *)
(* non-zero, the call returns normally, the entry becomes the offset of    *)
(* the frame just appended, the earlier frame's bytes are still in the     *)
(* file unchanged, no entry refers to the earlier frame any longer, and    *)
(* the entry of every other cell is unchanged.                             *)
(***************************************************************************)
C13_SilentOverwrite ==
    [][\A t \in Threads :
          (thr[t].pc = "written" /\ thr'[t].pc = "idle" /\ bTileMap[thr[t].index] # 0) =>
             LET c == thr[t].index
                 old == bTileMap[c]
             IN  /\ thr'[t] = NoCall
                 /\ bTileMap'[c] = writes[thr[t].wid].start
                 /\ FileBytes(bFile', bTileMap'[c], Len(thr[t].temp)) = thr[t].temp
                 /\ \E k \in 1 .. Len(writes) :
                       /\ writes[k].start = old
                       /\ k # thr[t].wid
                       /\ FileBytes(bFile', old, Len(writes[k].bytes)) = writes[k].bytes
                 /\ \A d \in TileCells : bTileMap'[d] # old
                 /\ \A d \in TileCells \ {c} : bTileMap'[d] = bTileMap[d]]_vars

\* a cell has been given a second frame: its first frame is still in the file and
\* its entry is the start of the second
C13_Witness ==
    /\ phase = "building"
    /\ \A t \in Threads : thr[t].pc = "idle"
    /\ Len(writes) = 2
    /\ writes[1].index = writes[2].index
    /\ bTileMap[writes[2].index] = writes[2].start
    /\ FileBytes(bFile, writes[1].start, Len(writes[1].bytes)) = writes[1].bytes

\* the frames the builder appended that no entry of the table tm refers to, in
\* file order, as ranges of the payload region that starts at data_offset
RECURSIVE UnreferencedFrames(_, _, _)
UnreferencedFrames(tm, data_offset, k) ==
    IF k = 0 THEN <<>>
    ELSE LET rest == UnreferencedFrames(tm, data_offset, k - 1)
         IN  IF \E c \in TileCells : tm[c] = writes[k].start THEN rest
             ELSE Append(rest, <<writes[k].start - data_offset, Len(writes[k].bytes)>>)

ZeroedEntry(ds, c) == [ds EXCEPT !.tile_map = [ds.tile_map EXCEPT ![c] = 0]]

(***************************************************************************)
(* C14: on a reopened container get_orphaned_tiles returns, and what it    *)
(* returns is exactly the frames that no table entry refers to, each with  *)
(* the length of the whole frame; a container in which every frame is      *)
(* referenced yields no range, and with one tile's entry set to zero the   *)
(* same container yields one more range, the frame of that tile.           *)
(***************************************************************************)
C14_OrphansExact ==
    (phase = "reading" /\ reader.err = "none") =>
      /\ get_orphaned_tiles(reader)
            = [kind |-> "Ok",
               ret |-> UnreferencedFrames(reader.tile_map, reader.data_offset, Len(writes))]
      /\ \A c \in TileCells :
            reader.tile_map[c] # 0 =>
               get_orphaned_tiles(ZeroedEntry(reader, c))
                 = [kind |-> "Ok",
                    ret |-> UnreferencedFrames(ZeroedEntry(reader, c).tile_map,
                                               reader.data_offset, Len(writes))]

\* the property of C14 for version-4 containers built with an empty dictionary
C14_OrphansEmptyDictionary ==
    (bMetadata.version = 4 /\ bDictionary = <<>>) => C14_OrphansExact

(***************************************************************************)
(* C15: a builder made by from_dataset with the dictionary of the file     *)
(* only appends: after its tiles are added and the file is finished and    *)
(* loaded again, every tile the file held when it was opened and every     *)
(* tile added since is present with the grid given for it, and             *)
(* get_orphaned_tiles reports exactly the frames that were replaced (none  *)
(* when every add went to a cell that was empty).                          *)
(***************************************************************************)
C15_AppendKeepsTiles ==
    (/\ phase = "rereading" /\ reader.err = "none"
     /\ lastFlush.done /\ lastFlush.table = bTileMap
     /\ bDictionary = opened.dictionary
     /\ bMetadata.version = 4 \/ bMetadata.tiling = 1)
      => /\ \A lon \in CellLons :
               LET c == map_lat_lon_to_index(CellLat, lon)
               IN  (opened.tile_map[c] # 0 \/ supplied[c] # NoGrid) =>
                      /\ tile_exists(reader, CellLat, lon)
                      /\ supplied[c] # NoGrid
                      /\ Representable(supplied[c].grid, bMetadata.height_resolution) =>
                            get_tile(reader, CellLat, lon)
                               = [kind |-> "Ok", grid |-> supplied[c].grid]
         /\ get_orphaned_tiles(reader)
               = [kind |-> "Ok",
                  ret |-> UnreferencedFrames(reader.tile_map, reader.data_offset,
                                             Len(writes))]

\* the property of C15 for version-4 containers built and continued with an empty
\* dictionary
C15_AppendEmptyDictionary ==
    (/\ phase = "rereading"
     /\ bMetadata.version = 4 /\ bDictionary = <<>>
     /\ (IF writes = <<>> THEN opened.len ELSE Min(writes[1].start, opened.len))
           = VER4_DICT_OFFSET + 8)
      => C15_AppendKeepsTiles

\* the append-only part of C15: while a builder made by from_dataset is open, a
\* write of add_tile starts at the end of the file and changes no byte the file
\* already had, and recording its offset changes no other entry; every entry the
\* file had when it was opened is still there unless its cell was given a new frame
C15_AppendOnly ==
    [][phase = "appending" =>
          /\ \A t \in Threads :
                (thr[t].pc = "seeked" /\ thr'[t].pc = "written") =>
                   /\ bCursor = Len(bFile)
                   /\ bCursor >= opened.len
                   /\ \A i \in 1 .. Len(bFile) : bFile'[i] = bFile[i]
          /\ \A t \in Threads :
                (thr[t].pc = "written" /\ thr'[t].pc = "idle") =>
                   \A d \in TileCells \ {thr[t].index} : bTileMap'[d] = bTileMap[d]
          /\ \A c \in TileCells :
                \/ bTileMap'[c] = opened.tile_map[c]
                \/ bTileMap'[c] >= opened.len]_vars

(***************************************************************************)
(* C18: add_tile_from_dataset with a source dataset that differs from the  *)
(* builder in version, resolution, height resolution, tiling or dictionary *)
(* id panics, and leaves the builder's offset table and the file as they   *)
(* were.                                                                   *)
(***************************************************************************)
C18_MismatchRejected ==
    [][\A t \in Threads, lon \in CellLons, variant \in SourceVariants \ {"same"} :
          AddFromDataset(t, lon, variant) =>
             /\ thr'[t].pc = "panicked"
             /\ bTileMap' = bTileMap
             /\ bFile' = bFile]_vars

\* the property of C18 for the four properties other than the version
C18_MismatchRejectedButVersion ==
    [][\A t \in Threads, lon \in CellLons,
          variant \in SourceVariants \ {"same", "version"} :
          AddFromDataset(t, lon, variant) =>
             /\ thr'[t].pc = "panicked"
             /\ bTileMap' = bTileMap
             /\ bFile' = bFile]_vars

(***************************************************************************)
(* C19: whenever a builder is made for an existing container that loads,   *)
(* the builder holds the metadata and the dictionary of the file and the   *)
(* file is left as it was: a request that differs in metadata or           *)
(* dictionary yields no builder and changes nothing.                       *)
(***************************************************************************)
C19_AppendMatchesFile ==
    [][(phase = "reading" /\ reader.err = "none" /\ phase' \in OpenPhases) =>
          /\ bMetadata' = reader.metadata
          /\ bDictionary' = reader.dictionary
          /\ bFile' = bFile]_vars

\* the part of C19 that from_dataset keeps: the builder it makes holds the metadata
\* of the loaded dataset and leaves the file as it was
C19_FromDatasetKeepsMetadata ==
    [][(phase = "reading" /\ phase' = "appending") =>
          /\ bMetadata' = reader.metadata
          /\ bFile' = bFile]_vars


\* C16: Dataset::load classifies a bad header by the first failing check in the
\* order size, magic, version: fewer than 7 bytes give InvalidFileSize; otherwise
\* five leading bytes that are not the magic give InvalidMagic whatever the version
\* bytes are; otherwise a version other than 3 and 4 gives
\* UnsupportedFormatVersion; in none of these cases is a Dataset produced.
C16_HeaderChecksInOrder ==
    fpc = "load_out" =>
        /\ Len(fin.file) < 7 => fout.err = "InvalidFileSize"
        /\ (Len(fin.file) >= 7 /\ fin.magic # MAGIC) => fout.err = "InvalidMagic"
        /\ (Len(fin.file) >= 7 /\ fin.magic = MAGIC /\ fin.version \notin {3, 4}) =>
               fout.err = "UnsupportedFormatVersion"

\* a file of seven bytes or more with both a foreign magic and an unknown version
\* was classified by its magic
C16_Witness ==
    /\ fpc = "load_out"
    /\ Len(fin.file) >= 7
    /\ fin.magic = HILLSHADE_MAGIC
    /\ fin.version = 6
    /\ fout.err = "InvalidMagic"

\* C17: a file with the magic and a known version that ends inside the metadata
\* fields, the offset table, the dictionary length or the dictionary bytes loads
\* as InvalidFileSize, never as a Dataset.
C17_TruncatedIsInvalidFileSize ==
    (/\ fpc = "load_out"
     /\ fin.magic = MAGIC
     /\ fin.version \in {3, 4}
     /\ fin.region \in {"metadata", "table", "dict_size", "dictionary"}) =>
        fout.err = "InvalidFileSize"

\* a version-4 file that ends inside a non-empty dictionary was refused
C17_Witness ==
    /\ fpc = "load_out"
    /\ fin.magic = MAGIC
    /\ fin.version = 4
    /\ fin.region = "dictionary"
    /\ fout.err = "InvalidFileSize"

\* the same file with nothing cut off loads
C17_CompleteLoads ==
    (/\ fpc = "load_out"
     /\ fin.magic = MAGIC
     /\ fin.version \in {3, 4}
     /\ fin.region = "whole") =>
        fout.err = "none"


\* C20: a hillshade container created by HillshadeBuilder::new starts with the
\* hillshade magic {98, 117, 115, 115, 121}, so that Hillshade::load on the file
\* produced by new followed by finish succeeds instead of returning InvalidMagic.
C20_HillshadeMagicWritten ==
    /\ fpc \in {"hillshade_building", "hillshade_finished", "hillshade_loaded"} =>
           SubSeq(fin.file, 1, 5) = HILLSHADE_MAGIC
    /\ fpc = "hillshade_loaded" => fout.err # "InvalidMagic"

\* what the builder does write: the dataset magic, on which the load of every
\* finished hillshade file stops
C20_DatasetMagicWritten ==
    /\ fpc \in {"hillshade_building", "hillshade_finished", "hillshade_loaded"} =>
           SubSeq(fin.file, 1, 5) = MAGIC
    /\ fpc = "hillshade_loaded" => fout.err = "InvalidMagic"

\* a file made by new and finish alone was loaded
C20_NewFinishLoaded ==
    /\ fpc = "hillshade_loaded"
    /\ fin.adds = 0


\* C21: recreate_atlas doubles the atlas width and height, each clamped to the
\* device's maximum texture side; it refuses, changing nothing, exactly when both
\* sides already equal the maximum, and populate_tiles then returns AtlasFull;
\* neither side ever exceeds the maximum.
C21_GrowthClamped ==
    [][LET maxed == atlas.width = MaxTextureDim /\ atlas.height = MaxTextureDim
       IN  /\ atlas'.width <= MaxTextureDim /\ atlas'.height <= MaxTextureDim
           /\ status' = "Resized" =>
                  /\ ~maxed
                  /\ atlas'.width = Min(2 * atlas.width, MaxTextureDim)
                  /\ atlas'.height = Min(2 * atlas.height, MaxTextureDim)
           /\ status' = "AtlasFull" =>
                  /\ maxed
                  /\ atlas'.width = atlas.width /\ atlas'.height = atlas.height
                  /\ atlas'.curr_tile_res = datasets[lods[range']].resolution
           /\ status' \in {"Ok", "Panic"} =>
                  atlas'.width = atlas.width /\ atlas'.height = atlas.height]_vars

\* an atlas that started at 1024 rows has grown to the device limit on both sides
C21_Witness ==
    /\ status = "Resized"
    /\ datasets[1].resolution = 512
    /\ atlas.width = MaxTextureDim /\ atlas.height = MaxTextureDim

\* growth was refused on an atlas at the device limit
C21_Refused ==
    /\ status = "AtlasFull"
    /\ atlas.width = MaxTextureDim /\ atlas.height = MaxTextureDim


\* the steps of the frame that leads to the next state, and whether it began with clear
FrameEvents == populate_tiles(atlas, tiles, datasets, lods, used', range').events
FrameClears == datasets[lods[range']].resolution # atlas.curr_tile_res
EventsOf(kinds, c) ==
    {k \in 1 .. Len(FrameEvents) : FrameEvents[k].kind \in kinds /\ FrameEvents[k].cell = c}

\* C22: a cell marked NOT_FOUND keeps that value through every later frame,
\* whatever its used flag, with no further dataset lookup and without being pushed
\* to the free list, until clear runs on a change of resolution or the atlas grows;
\* after a clear it is UNLOADED and is looked up again when it is used.
C22_NotFoundSticky ==
    [][\A c \in Cells :
          tiles[c] = not_found(atlas) =>
              /\ EventsOf({"evict", "gc_evict", "admit"}, c) = {}
              /\ \A k \in 1 .. Len(atlas'.collected_tiles) :
                     atlas'.collected_tiles[k] # not_found(atlas)
              /\ (~FrameClears /\ status' # "Resized") =>
                     /\ tiles'[c] = not_found(atlas')
                     /\ EventsOf({"lookup"}, c) = {}
              /\ status' = "Resized" => tiles'[c] = unloaded(atlas')
              /\ (FrameClears /\ used'[c] = 0 /\ status' # "Resized") =>
                     tiles'[c] = unloaded(atlas')
              /\ (FrameClears /\ used'[c] = 1) =>
                     \/ EventsOf({"lookup"}, c) # {}
                     \/ status' # "Ok"]_vars

\* a cell is NOT_FOUND at the end of a frame in which it was not used: it was
\* marked in an earlier frame and has kept the mark
C22_Witness ==
    \E c \in Cells :
        /\ tiles[c] = not_found(atlas)
        /\ used[c] = 0
        /\ status = "Ok"


\* the slots upload_tile handed out among the steps ev of a frame
AdmittedSlots(ev) == {ev[k].slot : k \in {j \in 1 .. Len(ev) : ev[j].kind = "admit"}}

\* C23: the sentinels UNLOADED = (0, height) and NOT_FOUND = (width, 0) differ from
\* each other and from every slot upload_tile returns, for the atlas dimensions
\* current at the time, after any sequence of uploads, evictions, clears and
\* growths.
C23_SentinelsApart ==
    [][LET admitted == AdmittedSlots(FrameEvents)
       IN  /\ unloaded(atlas') # not_found(atlas')
           /\ \A slot \in admitted :
                  /\ slot # unloaded(atlas) /\ slot # not_found(atlas)
                  /\ slot.x < atlas.width /\ slot.y < atlas.height]_vars

\* an atlas that has grown holds a tile admitted in a later frame, with an evicted
\* slot waiting in the free list
C23_Witness ==
    /\ datasets[1].resolution = 512
    /\ atlas.height = MaxTextureDim
    /\ status = "Ok"
    /\ uploads > 0
    /\ Len(atlas.collected_tiles) > 0
    /\ \E c \in Cells : IsSlot(atlas, tiles[c])


\* C27: garbage collection (collect_tiles) frees only cells whose used flag is 0 and
\* that hold a real slot; it never evicts a cell whose used flag is 1, in particular
\* not a cell admitted earlier in the same frame.
C27_GcSparesUsedCells ==
    [][LET ev == FrameEvents
       IN  \A k \in 1 .. Len(ev) :
              ev[k].kind = "gc_evict" =>
                  /\ used'[ev[k].cell] = 0
                  /\ \A j \in 1 .. (k - 1) :
                         ~(ev[j].kind = "admit" /\ ev[j].cell = ev[k].cell)]_vars

\* what collect_tiles does keep to: it frees only cells that hold a real slot and
\* that lie behind the cell being admitted in index order
C27_GcFreesRealSlots ==
    [][LET ev == FrameEvents
       IN  \A k \in 1 .. Len(ev) :
              ev[k].kind = "gc_evict" =>
                  /\ ev[k].slot.x < atlas.width /\ ev[k].slot.y < atlas.height
                  /\ \E j \in 1 .. (k - 1) :
                         /\ ev[j].kind = "gc" /\ ev[j].cell < ev[k].cell
                         /\ \A m \in (j + 1) .. (k - 1) : ev[m].kind = "gc_evict"]_vars


\* C28: when the atlas grows during a frame, populate_tiles returns Resized, admits
\* nothing further in that frame, and every residency entry is UNLOADED for the new
\* dimensions; before the first admission of the next frame the free list is
\* emptied and the bump allocator reset, so that no slot computed for the old atlas
\* is handed out afterwards.
C28_GrowthStartsAfresh ==
    [][LET ev == FrameEvents
           a == atlas
           emptied == [a EXCEPT !.collected_tiles = <<>>, !.curr_offset = TileOffset(0, 0)]
           afresh == populate_tiles(emptied, tiles, datasets, lods, used', range')
       IN  /\ status' = "Resized" =>
                  /\ ev[Len(ev)].kind = "grow"
                  /\ \A c \in Cells : tiles'[c] = unloaded(atlas')
                  /\ atlas'.width > a.width \/ atlas'.height > a.height
           /\ (\E k \in 1 .. Len(ev) : ev[k].kind = "grow") => status' = "Resized"
           /\ status = "Resized" =>
                  /\ ev # <<>> /\ ev[1].kind = "clear"
                  /\ atlas' = afresh.atlas /\ tiles' = afresh.tiles
                  /\ \A k \in 1 .. Len(ev) :
                         (ev[k].kind = "admit"
                          /\ \A j \in 1 .. (k - 1) : ev[j].kind # "admit")
                             => ev[k].slot = TileOffset(0, 0)]_vars

\* the atlas has just grown with slots of the old atlas still in the free list and
\* the bump pointer away from the origin
C28_Witness ==
    /\ status = "Resized"
    /\ Len(atlas.collected_tiles) > 0
    /\ atlas.curr_offset # TileOffset(0, 0)
    /\ \A c \in Cells : tiles[c] = unloaded(atlas)

\* a tile was admitted to the origin of an atlas that has grown
C28_AdmittedAfterGrowth ==
    /\ datasets[1].resolution = 512
    /\ atlas.height = MaxTextureDim
    /\ status = "Ok"
    /\ \E c \in Cells : tiles[c] = TileOffset(0, 0)


\* C29: when a frame's range selects a dataset whose tile resolution differs from
\* the current one, clear runs before any eviction or admission of that frame:
\* every residency entry, real slot or NOT_FOUND, becomes UNLOADED, the free list
\* is emptied, the bump allocator returns to (0, 0), and the first admission
\* afterwards receives slot (0, 0); when the resolution is unchanged, nothing is
\* cleared.
C29_ClearOnResolutionChange ==
    [][LET ev == FrameEvents
           gc_slots == {ev[k].slot : k \in {j \in 1 .. Len(ev) : ev[j].kind = "gc_evict"}}
       IN  /\ FrameClears =>
                  /\ ev # <<>> /\ ev[1].kind = "clear"
                  /\ \A k \in 1 .. Len(ev) : ev[k].kind # "evict"
                  /\ \A k \in 1 .. Len(ev) :
                         (ev[k].kind = "admit"
                          /\ \A j \in 1 .. (k - 1) : ev[j].kind # "admit")
                             => ev[k].slot = TileOffset(0, 0)
                  /\ \A c \in Cells :
                         /\ tiles'[c] = not_found(atlas') => EventsOf({"lookup"}, c) # {}
                         /\ IsSlot(atlas', tiles'[c]) => EventsOf({"admit"}, c) # {}
                  /\ \A k \in 1 .. Len(atlas'.collected_tiles) :
                         atlas'.collected_tiles[k] \in gc_slots
                  /\ status' # "Resized" =>
                         atlas'.curr_tile_res = datasets[lods[range']].resolution
           /\ ~FrameClears =>
                  /\ \A k \in 1 .. Len(ev) : ev[k].kind # "clear"
                  /\ \A c \in Cells :
                         (/\ IsSlot(atlas, tiles[c])
                          /\ used'[c] = 1
                          /\ EventsOf({"gc_evict"}, c) = {}
                          /\ status' # "Resized") => tiles'[c] = tiles[c]
                  /\ (status' # "Resized" /\ AdmittedSlots(ev) = {}) =>
                         /\ Len(atlas'.collected_tiles) >= Len(atlas.collected_tiles)
                         /\ SubSeq(atlas'.collected_tiles, 1, Len(atlas.collected_tiles))
                                = atlas.collected_tiles
                         /\ atlas'.curr_offset = atlas.curr_offset]_vars

\* the second frame selects the dataset of resolution 512 after a first frame on
\* the dataset of resolution 1024, and a tile was admitted to slot (0, 0)
C29_Witness ==
    /\ frame = 2
    /\ range = 2
    /\ status = "Ok"
    /\ uploads > 0
    /\ atlas.curr_tile_res = 512
    /\ \E c \in Cells : tiles[c] = TileOffset(0, 0)


\* the steps ev from the k-th on keep to the free list fl as a stack: an eviction
\* pushes its slot, an admission takes the top while there is one
RECURSIVE PopsBeforeBump(_, _, _)
PopsBeforeBump(ev, k, fl) ==
    IF k > Len(ev) THEN TRUE
    ELSE IF ev[k].kind \in {"evict", "gc_evict"}
    THEN PopsBeforeBump(ev, k + 1, Append(fl, ev[k].slot))
    ELSE IF ev[k].kind = "admit"
    THEN IF fl # <<>>
         THEN /\ ev[k].slot = fl[Len(fl)]
              /\ PopsBeforeBump(ev, k + 1, SubSeq(fl, 1, Len(fl) - 1))
         ELSE PopsBeforeBump(ev, k + 1, fl)
    ELSE PopsBeforeBump(ev, k + 1, fl)

\* C30: a slot is never both in the free list and held by a cell, and the free
\* list never contains the same slot twice: eviction of an unused resident cell
\* pushes its slot once and sets the cell to UNLOADED, and admission pops
\* free-list slots before bump-allocating.
C30_FreeListDisjoint ==
    [][LET ev == FrameEvents
           fl == atlas'.collected_tiles
       IN  /\ \A j, k \in 1 .. Len(fl) : fl[j] = fl[k] => j = k
           /\ \A c \in Cells, k \in 1 .. Len(fl) :
                  IsSlot(atlas', tiles'[c]) => tiles'[c] # fl[k]
           /\ \A k \in 1 .. Len(ev) :
                  ev[k].kind = "evict" =>
                      /\ used'[ev[k].cell] = 0
                      /\ ev[k].slot = tiles[ev[k].cell]
                      /\ tiles'[ev[k].cell] = unloaded(atlas')
                      /\ \A j \in 1 .. Len(ev) :
                             (ev[j].kind \in {"evict", "gc_evict"} /\ ev[j].slot = ev[k].slot
                              /\ j # k)
                                 => \E m \in (Min(j, k) + 1) .. ((IF j > k THEN j ELSE k) - 1) :
                                        ev[m].kind = "admit" /\ ev[m].slot = ev[k].slot
           /\ PopsBeforeBump(ev, 1, IF FrameClears THEN <<>> ELSE atlas.collected_tiles)]_vars

\* an evicted slot waits in the free list while other cells are resident, in a
\* frame that admitted a tile
C30_Witness ==
    /\ status = "Ok"
    /\ frame >= 2
    /\ uploads > 0
    /\ Len(atlas.collected_tiles) > 0
    /\ \E c \in Cells : IsSlot(atlas, tiles[c]) /\ used[c] = 1


\* C24: get_tile on a tile whose payload is malformed (bad entropy frame, a payload
\* length matching no palette form, or a palette index beyond the stored palette)
\* returns an error value for that tile rather than panicking, and get_tile on the
\* other tiles of the same reader still succeeds afterwards.
C24_MalformedIsError ==
    /\ fpc # "ver6_panicked"
    /\ \A k \in 1 .. Len(fout) :
           /\ (fout[k].cell = 0 /\ fin.damage # "good") => fout[k].kind = "err"
           /\ fout[k].cell = 1 => fout[k].kind = "ok"

\* what holds: a bad entropy frame is an error value, and the other tile is read
\* after it; a panic comes only from the other two kinds of damage
C24_BadFrameIsError ==
    /\ fpc = "ver6_panicked" => fin.damage \in {"bad_length", "bad_index"}
    /\ fin.damage \in {"good", "bad_frame"} =>
           \A k \in 1 .. Len(fout) :
               fout[k].kind = IF fout[k].cell = 0 /\ fin.damage = "bad_frame"
                              THEN "err" ELSE "ok"

\* the tile behind a bad entropy frame was read after the error
C24_ReadAfterError ==
    /\ Len(fout) = 2
    /\ fout[1] = [cell |-> 0, kind |-> "err"]
    /\ fout[2] = [cell |-> 1, kind |-> "ok"]


(***************************************************************************)
(* Claims about the parallel driver and the in-memory builder.             *)
(***************************************************************************)
DriverPhases == {"driver_running", "driver_returned", "driver_exited", "driver_loaded",
                 "driver_read_panicked"}
InDriver == fpc \in DriverPhases
DriverOver == fpc \in {"driver_returned", "driver_loaded", "driver_read_panicked"}

RECURSIVE FramesLen(_, _)
FramesLen(fr, c) == IF c < 0 THEN 0 ELSE Len(fr[c]) + FramesLen(fr, c - 1)

\* the builder as another thread may see it: an entry for exactly the cells whose
\* frame is in the data, every frame unbroken, and nothing else in the data
DriverConsistent ==
    /\ \A c \in TileCells :
           IF fin.locked.tile_map[c] # 0
           THEN /\ fin.starts[c] >= 0
                /\ fin.frames[c] # <<>>
                /\ FileBytes(fin.locked.data, fin.starts[c], Len(fin.frames[c]))
                       = fin.frames[c]
           ELSE fin.starts[c] = -1
    /\ Len(fin.locked.data) = FramesLen(fin.frames, TileMapLen - 1)

\* the written file has an entry for cell c and holds its frame
DriverHeld(c) ==
    /\ ReadU64LE(fout.file, TILE_MAP_START_OFFSET + 8 * c) # 0
    /\ FileBytes(fout.file, DICT_START_OFFSET + 8 + fin.starts[c], Len(fin.frames[c]))
           = fin.frames[c]

\* the entry of cell c in the written file leads a reader to the grid given for c
DriverReferenced(c) ==
    /\ DriverHeld(c)
    /\ LET r == lib_get_tile(lib_load(fout.file), c)
       IN  r.kind = "ok" /\ r.heights = fin.given[c]

\* C25: in the parallel build driver, once the cancellation flag is set no tile that
\* has not yet started is processed, every add_tile already in progress completes
\* atomically, and the builder is then finished so that every tile added before
\* cancellation is referenced by the written offset table.
C25_CancelledRunIsFinished ==
    InDriver =>
        /\ fin.late = {}
        /\ fin.lock = 0 => DriverConsistent
        /\ (fpc # "driver_running" /\ fin.was_quit) =>
               /\ fout.finished
               /\ \A c \in fin.before \cup fin.inflight : DriverReferenced(c)

\* what holds: no item begins after the flag is set and every add_tile is atomic;
\* when the loop is over and no exec has failed, finish has written a file with a
\* non-zero entry and the frame for every tile added before the flag was set or in
\* progress then; when an exec has failed, or a second signal has ended the process,
\* finish is not called
C25_CancelledRunFinishedUnlessFailed ==
    InDriver =>
        /\ fin.late = {}
        /\ fin.lock = 0 => DriverConsistent
        /\ (DriverOver /\ fin.was_quit /\ ~fin.had_error) =>
               /\ fout.finished
               /\ \A c \in fin.before \cup fin.inflight : DriverHeld(c)
        /\ (fpc = "driver_exited" \/ fin.had_error) => ~fout.finished

\* a cancelled run that was finished: a tile was there when the flag was set,
\* an add_tile was in progress, and an item returned at the flag
C25_Witness ==
    /\ fpc = "driver_returned"
    /\ fin.was_quit
    /\ fout.finished
    /\ fin.before # {}
    /\ fin.inflight # {}
    /\ fin.skipped # {}

\* C26: in the version-3 in-memory builder, the offset recorded for a tile is the
\* position in the data region at which that tile's own compressed frame begins, so
\* that after finish and load, get_tile for each added cell decodes that cell's
\* frame; tiles added to different cells get different offsets.
C26_OffsetIsFrameStart ==
    (InDriver /\ fin.lock = 0) =>
        \A c \in fin.added : fin.locked.tile_map[c] = fin.starts[c]

\* C26, its second part: get_tile of an added cell returns the grid given for it
C26_GetTileDecodesOwnFrame ==
    InDriver =>
        \A c \in fin.added : fout.got[c] \in {"unread", "own"}

\* C26, its third part: two added cells have different offsets
C26_OffsetsDiffer ==
    (InDriver /\ fin.lock = 0) =>
        \A c, d \in fin.added :
            c # d => fin.locked.tile_map[c] # fin.locked.tile_map[d]


(***************************************************************************)
(* Claims about the atlas allocator.                                       *)
(***************************************************************************)
CacheRuns == status \in {"None", "Ok", "Resized", "AtlasFull", "Panic"}

\* C36: whenever collect_tiles returns true, the retried upload_tile returns a slot,
\* so the expect "Tile GC returned None when it had to be Some" can never fire: no
\* frame ends in the panic, and every collection of a frame is followed either by
\* the growth or the refusal (collect_tiles returned false) or by the admission of
\* the cell that asked for it, into the slot collect_tiles pushed last.
C36_RetryAdmits ==
    [][LET ev == FrameEvents
       IN  /\ status' # "Panic"
           /\ \A k \in 1 .. Len(ev) :
                  ev[k].kind = "gc" =>
                      \E m \in (k + 1) .. Len(ev) :
                          /\ ev[m].cell = ev[k].cell
                          /\ ev[m].kind \in {"admit", "grow", "full"}
                          /\ \A j \in (k + 1) .. (m - 1) : ev[j].kind = "gc_evict"
                          /\ ev[m].kind = "admit" =>
                                 (m > k + 1 /\ ev[m].slot = ev[m - 1].slot)]_vars

\* a frame ended Ok with a tile uploaded and a used, decodable cell left without a
\* slot: a collection ran in it, returned true, and the retry admitted the tile
C36_Witness ==
    /\ status = "Ok"
    /\ uploads > 0
    /\ \E c \in Cells :
          /\ used[c] = 1
          /\ datasets[lods[range]].tiles[c] = "ok"
          /\ tiles[c] = unloaded(atlas)

\* the slot at offset o lies inside the atlas a at a's tile resolution
SlotInside(a, o) ==
    o.x + a.curr_tile_res <= a.width /\ o.y + a.curr_tile_res <= a.height

C38_PopLeavesBump ==
    (CacheRuns /\ status # "None" /\ Len(atlas.collected_tiles) > 0) =>
        LET up == upload_tile(atlas)
        IN  /\ up.ret = atlas.collected_tiles[Len(atlas.collected_tiles)]
            /\ up.atlas.curr_offset = atlas.curr_offset

\* what holds: the slot comes from the free list
C38_PopReturnsFreeSlot ==
    (CacheRuns /\ status # "None" /\ Len(atlas.collected_tiles) > 0) =>
        upload_tile(atlas).ret = atlas.collected_tiles[Len(atlas.collected_tiles)]

\* the number of doublings that take a side to the device limit
RECURSIVE Doublings(_)
Doublings(side) == IF side >= MaxTextureDim THEN 0 ELSE 1 + Doublings(2 * side)

GrowthLeft(a) == Doublings(a.width) + Doublings(a.height)

\* C39: every successful recreate_atlas strictly increases width or height and
\* shrinks neither, so each frame that returns Resized uses up at least one of the
\* doublings left to the device limit, no other frame changes the size, and once
\* none is left a frame under atlas pressure returns AtlasFull and never Resized.
C39_GrowthIsFinite ==
    [][/\ atlas.width > 0 /\ atlas.height > 0
       /\ status' = "Resized" =>
              /\ atlas'.width >= atlas.width /\ atlas'.height >= atlas.height
              /\ atlas'.width > atlas.width \/ atlas'.height > atlas.height
              /\ GrowthLeft(atlas') < GrowthLeft(atlas)
       /\ status' # "Resized" => GrowthLeft(atlas') = GrowthLeft(atlas)
       /\ GrowthLeft(atlas) = 0 => status' # "Resized"
       /\ status' = "AtlasFull" => GrowthLeft(atlas) = 0]_vars

\* an atlas that was made 512 wide has grown twice and has no doubling left
C39_Witness ==
    /\ status = "Resized"
    /\ datasets[1].resolution = 512
    /\ atlas.width = MaxTextureDim
    /\ GrowthLeft(atlas) = 0
    /\ frame >= 2

\* atlas pressure after the last growth
C39_FullAfterGrowth ==
    /\ status = "AtlasFull"
    /\ frame >= 2


(***************************************************************************)
(* Claims about the frame walker and the version-6 decoder.                *)
(***************************************************************************)
\* the first block of bs that is marked as the last
FirstLast(bs) == CHOOSE k \in 1 .. Len(bs) :
                     bs[k].last = 1 /\ \A j \in 1 .. (k - 1) : bs[j].last = 0

\* header size as the format lays it out
HeaderBytes(f) ==
    1 + (IF f.single_segment = 0 THEN 1 ELSE 0)
      + (CASE f.dict_id = 0 -> 0 [] f.dict_id = 1 -> 1 [] f.dict_id = 2 -> 2 [] OTHER -> 4)
      + (CASE f.size_id = 0 -> (IF f.single_segment = 1 THEN 1 ELSE 0)
           [] f.size_id = 1 -> 2 [] f.size_id = 2 -> 4 [] OTHER -> 8)

RECURSIVE BlockBytesUpTo(_, _)
BlockBytesUpTo(bs, k) ==
    IF k = 0 THEN 0
    ELSE 3 + (IF bs[k].ty = 1 THEN 1 ELSE bs[k].size) + BlockBytesUpTo(bs, k - 1)

\* C33: tile_frame_size returns the header size plus the sum of the block sizes up to
\* and including the first block with the last-block bit set; the header is the
\* descriptor byte, a window byte iff not single-segment, 0/1/2/4 dictionary-id
\* bytes and 0-or-1/2/4/8 frame-size bytes; a block is 3 header bytes plus its
\* content size (raw, compressed) or plus 1 byte (RLE); a block of the reserved type
\* among them is a hard error.
C33_FrameSize ==
    fpc = "frame_out" =>
        LET n == FirstLast(fin.blocks)
        IN  IF \E k \in 1 .. n : fin.blocks[k].ty = 3
            THEN fout.size = -1
            ELSE fout.size = HeaderBytes(fin) + BlockBytesUpTo(fin.blocks, n)

\* a frame with a window byte, a dictionary id and a content size, whose first block
\* is an RLE block and whose second block is the last; its size was returned
C33_Witness ==
    /\ fpc = "frame_out"
    /\ fin.single_segment = 0 /\ fin.dict_id = 3 /\ fin.size_id = 1
    /\ Len(fin.blocks) = 2
    /\ fin.blocks[1].ty = 1 /\ fin.blocks[1].last = 0 /\ fin.blocks[1].size = 2
    /\ fin.blocks[2].ty = 2 /\ fin.blocks[2].size = 2
    /\ fout.size = 8 + 4 + 5

\* a block of the reserved type before the last block
C33_ReservedPanics ==
    /\ fpc = "frame_out"
    /\ fin.blocks[1].ty = 3
    /\ fout.size = -1


\* the four forms a payload can have, and whether their lengths at one resolution
\* and palette length are pairwise different
FormLengthsDiffer(res, palette_len) ==
    \A f, g \in PaletteForms :
        f # g => payload_len(f, res, palette_len) # payload_len(g, res, palette_len)

\* C35: for a given R the decompressed length determines the form uniquely: the
\* two-byte raw form, the one-byte raw form and the two palette forms have pairwise
\* different lengths for every palette size 1..256, so unpalette never decodes a
\* payload of one form as another.
C35_LengthTellsForm ==
    fpc = "forms_out" =>
        /\ FormLengthsDiffer(fin.res, fin.palette_len)
        /\ fout.read_as = fin.form

\* C35, as it holds: for R >= 23 a raw form and a palette form never have the same
\* length and the two raw forms differ; the two palette forms have the same length
\* exactly at palette size 1, where they are the same bytes (no later palette
\* entry); unpalette reads every payload as the form it has, the one-entry one-byte
\* palette as the one-entry two-byte palette it is identical with.
C35_LengthTellsFormFromRes23 ==
    (fpc = "forms_out" /\ fin.res >= 23) =>
        LET len(f) == payload_len(f, fin.res, fin.palette_len)
        IN  /\ len("raw2") # len("raw1")
            /\ \A f \in {"pal2", "pal1"} : len(f) # len("raw2") /\ len(f) # len("raw1")
            /\ (len("pal2") = len("pal1")) <=> (fin.palette_len = 1)
            /\ fin.palette_len = 1 =>
                   payload_sections("pal1", fin.res, 1) = payload_sections("pal2", fin.res, 1)
            /\ fout.read_as = IF fin.form = "pal1" /\ fin.palette_len = 1 THEN "pal2"
                              ELSE fin.form

\* a one-byte palette of 256 entries at R = 23 was read as what it is
C35_Witness ==
    /\ fpc = "forms_out"
    /\ fin.res = 23
    /\ fin.form = "pal1"
    /\ fin.palette_len = MAX_PALETTE_LEN
    /\ fout.read_as = "pal1"

\* below R = 23 a palette payload was read as the two-byte raw form
C35_PaletteReadAsRaw ==
    /\ fpc = "forms_out"
    /\ fin.form \in {"pal2", "pal1"}
    /\ fout.read_as = "raw2"

\* the largest R at which that happens
C35_NoCollisionAbove22 ==
    (fpc = "forms_out" /\ fout.read_as # fin.form /\ fin.palette_len > 1) => fin.res <= 22

(***************************************************************************)
(* C34: un-predict leaves pixel (0,0) as stored and rebuilds every other   *)
(* non-water pixel as its predictor plus (stored residual - 7000), in      *)
(* 16 bits: the predictor is the value of (0,0) at (1,0) and (0,1),        *)
(* 2 * current - previous along the first row and the first column, and    *)
(* top + (left - top_left) in the interior, each neighbour taken at its    *)
(* reconstructed value; and every position a step reads other than its own *)
(* is (0,0) or was written by an earlier step, each position being written *)
(* once.                                                                   *)
(***************************************************************************)
StepReads(res, s) ==
    CASE s.kind = "delta" -> {0}
      [] s.kind = "row" -> {s.at - 2, s.at - 1}
      [] s.kind = "col" -> {s.at - 2 * res, s.at - res}
      [] OTHER -> {s.at - 1, s.at - res, s.at - res - 1}

Predictor(res, v, p) ==
    LET x == p % res
        y == p \div res
        at(q) == v[q + 1]
    IN  CASE p \in {1, res} -> at(0)
          [] y = 0 -> 2 * at(p - 1) - at(p - 2)
          [] x = 0 -> 2 * at(p - res) - at(p - 2 * res)
          [] OTHER -> at(p - res) + (at(p - 1) - at(p - res - 1))

C34_PredictorPlusResidual ==
    fpc \in {"codec_unpredicted", "codec_out"} =>
        LET steps == UnpredictSteps(CodecRes)
        IN  /\ fout.unpredicted[1] = fout.unpaletted[1]
            /\ \A p \in 1 .. (CodecRes * CodecRes - 1) :
                  fout.unpaletted[p + 1] # 0 =>
                      fout.unpredicted[p + 1] =
                          WrapU16(Predictor(CodecRes, fout.unpredicted, p)
                                  + (fout.unpaletted[p + 1] - 7000))
            /\ \A k \in 1 .. Len(steps) :
                  /\ \A q \in StepReads(CodecRes, steps[k]) :
                        q = 0 \/ \E j \in 1 .. (k - 1) : steps[j].at = q
                  /\ \A j \in 1 .. (k - 1) : steps[j].at # steps[k].at
            /\ {steps[k].at : k \in 1 .. Len(steps)} = 1 .. (CodecRes * CodecRes - 1)

\* a grid without water whose residuals differ has been un-predicted: the first
\* row's slope and the interior's plane both move the predictor off its neighbour
C34_Witness ==
    /\ fpc = "codec_unpredicted"
    /\ \A i \in CodecPixels : fout.unpaletted[i] # 0
    /\ fout.unpredicted[3] # WrapU16(fout.unpredicted[2] + (fout.unpaletted[3] - 7000))
    /\ fout.unpredicted[5] # WrapU16(fout.unpredicted[2] + (fout.unpaletted[5] - 7000))
    /\ fout.unpredicted[9] # fout.unpaletted[9]

(***************************************************************************)
(* C32: in every frame in which a tile fails to decode, the frame runs to  *)
(* its end without a panic; the failing cell is UNLOADED afterwards and no *)
(* slot was handed out for it (every texture uploaded in the frame is the  *)
(* admission of another cell); every cell the loop visits after it, up to  *)
(* the cell at which the loop leaves for a full atlas, is treated by the   *)
(* usual rules (an unused cell holds no slot afterwards; in a frame that   *)
(* returns Ok a used cell whose tile decodes holds a slot unless a later   *)
(* collection took it back); and the tile map texture holds the residency  *)
(* table when the frame returns.                                           *)
(***************************************************************************)
FailedCells(events, dataset) ==
    {c \in Cells : /\ dataset.tiles[c] = "err"
                   /\ \E k \in 1 .. Len(events) :
                         events[k].kind = "lookup" /\ events[k].cell = c}

VisitPos(c) == CHOOSE k \in 1 .. NumCells : VisitOrder[k] = c

C32_DecodeFailureSkipsCell ==
    [][LET st == populate_tiles(atlas, tiles, datasets, lods, used', range')
           dataset == datasets[lods[range']]
           failed == FailedCells(st.events, dataset)
           happened(kinds, c) == \E k \in 1 .. Len(st.events) :
                                    st.events[k].kind \in kinds /\ st.events[k].cell = c
           reached(c) == \A d \in Cells :
                            happened({"grow", "full"}, d) => VisitPos(d) >= VisitPos(c)
       IN  failed # {} =>
               /\ status' \in {"Ok", "Resized", "AtlasFull"}
               /\ \A c \in failed :
                     tiles'[c] = unloaded(atlas') /\ ~happened({"admit"}, c)
               /\ uploads' = Cardinality({c \in Cells : happened({"admit"}, c)})
               /\ \A e \in failed, c \in Cells :
                     (VisitPos(c) > VisitPos(e) /\ reached(c)) =>
                        /\ used'[c] = 0 => ~IsSlot(atlas', tiles'[c])
                        /\ (status' = "Ok" /\ used'[c] = 1 /\ dataset.tiles[c] = "ok") =>
                              IsSlot(atlas', tiles'[c]) \/ happened({"gc_evict"}, c)
               /\ tile_map_texture' = tiles'
      ]_vars

\* a frame has asked for the tile that fails to decode and for the cells visited
\* after it, admitted one of those, and left the failing cell unloaded
C32_Witness ==
    /\ status = "Ok"
    /\ frame >= 1
    /\ datasets[lods[range]].tiles[GridLon] = "err"
    /\ used[GridLon] = 1 /\ used[1] = 1
    /\ tiles[GridLon] = unloaded(atlas)
    /\ IsSlot(atlas, tiles[1])
    /\ tile_map_texture = tiles

\* a frame that met the failing tile went on to a cell that found the atlas full
C32_FullAfterFailure ==
    /\ status \in {"Resized", "AtlasFull"}
    /\ \E c \in Cells : datasets[lods[range]].tiles[c] = "err" /\ used[c] = 1
                        /\ c = 0
    /\ tile_map_texture = tiles

(***************************************************************************)
(* C31: the n-th clear of the used buffer runs on the device after the     *)
(* n-th read-back by populate_tiles, and the n-th heightmap pass after the *)
(* n-th clear, on a buffer that is all zero; so from the second frame on   *)
(* the mask populate_tiles has read, and run the frame on, is exactly the  *)
(* set of cells the shader wrote in the frame before.                      *)
(***************************************************************************)
InRender == fpc \in {"render_idle", "render_populated", "render_cleared", "render_recorded"}

C31_MaskIsLastFramesWrites ==
    InRender =>
        /\ fout.passes <= fout.clears /\ fout.clears <= fout.reads
        /\ fout.clears - fout.passes <= 1 /\ fout.reads - fout.clears <= 1
        /\ (fout.clears > fout.passes) => \A c \in Cells : fin.tile_status[c] = 0
        /\ (fpc = "render_populated" /\ fout.reads >= 2) =>
              /\ fout.passes = fout.reads - 1
              /\ fout.seen = fout.wrote
              /\ used = fout.wrote

\* the third frame has read a mask that differs from the one the second frame
\* read and leaves out a cell that one held
C31_Witness ==
    /\ fpc = "render_populated"
    /\ fout.reads = 3
    /\ fout.passes = 2
    /\ used = fout.wrote
    /\ \E c \in Cells : used[c] = 0
    /\ \E c \in Cells : used[c] = 1
    /\ \E c \in Cells : IsSlot(atlas, tiles[c])

====
